---- MODULE Spec2Model ----
(***************************************************************************)
(* Indicator computation engine of the SSO dashboard (IESS CD 513):        *)
(*   modules/reactive_engine.py   ReactiveAnalyzer  (IF / IG / TR rollups) *)
(*   modules/proactive_engine.py  ProactiveCalculator (ratios, IG_TOTAL)   *)
(*   modules/calculator.py        SSOCalculator (stand-alone formulas)     *)
(*                                                                         *)
(* Numbers.  A float cell is modelled by its exact rational value          *)
(* [k |-> "num", n, d] (d > 0, lowest terms) or by one of the special      *)
(* floats NaN, +inf, -inf; None is the missing object and Str(s) a text    *)
(* cell.  Rounding error of binary floating point is not modelled.         *)
(***************************************************************************)
EXTENDS Integers, Sequences, FiniteSets, TLC

VARIABLES sd,       \* last call of a _safe_divide implementation
          build,    \* tie order of the build's unstable sort (numpy quicksort)
          ra,       \* the ReactiveAnalyzer instance (its retained tables)
          r_call,   \* last ReactiveAnalyzer.procesar call: input, outcome, and
                    \* whether the instance held a report when it was made
          pc,       \* the ProactiveCalculator instance (meta, df_resultado)
          meta_arg, \* the meta argument the ProactiveCalculator was built with
          p_call,   \* last ProactiveCalculator.procesar call: input and outcome
          calls,    \* number of procesar calls of the session so far
          dv,       \* the DataValidator instance (tipo_analisis)
          v_call,   \* last DataValidator.validar call: input, the table with
                    \* its columns normalised, and outcome
          d_call    \* last DataValidator.detectar_tipo_datos call: input and
                    \* the kind returned

vars == <<sd, build, ra, r_call, pc, meta_arg, p_call, calls, dv, v_call,
          d_call>>

---------------------------------------------------------------------------
(* Exact rational arithmetic standing for float arithmetic.                *)

Abs(x) == IF x < 0 THEN -x ELSE x

RECURSIVE Gcd(_, _)
Gcd(a, b) == IF b = 0 THEN a ELSE Gcd(b, a % b)

Num(n, d) ==
    LET g == Gcd(Abs(n), Abs(d))
        s == IF d < 0 THEN -1 ELSE 1
    IN [k |-> "num", n |-> (s * n) \div g, d |-> (s * d) \div g]

Whole(i) == [k |-> "num", n |-> i, d |-> 1]
Zero == Whole(0)
NaN == [k |-> "nan"]
PosInf == [k |-> "inf", sgn |-> 1]
NegInf == [k |-> "inf", sgn |-> -1]
None == [k |-> "none"]
Str(t) == [k |-> "str", s |-> t]

IsNum(x) == x.k = "num"
IsFloat(x) == x.k \in {"num", "nan", "inf"}
Sign(x) == IF x.k = "inf" THEN x.sgn
           ELSE IF x.n > 0 THEN 1 ELSE IF x.n < 0 THEN -1 ELSE 0

\* a/b + c/d, a/b * c/d and (a/b) / (c/d) on rationals, reducing before
\* multiplying so that intermediate products stay small
RatAdd(x, y) ==
    LET g == Gcd(x.d, y.d)
    IN Num(x.n * (y.d \div g) + y.n * (x.d \div g), (x.d \div g) * y.d)

RatMul(x, y) ==
    LET g1 == Gcd(Abs(x.n), y.d)
        g2 == Gcd(Abs(y.n), x.d)
    IN IF x.n = 0 \/ y.n = 0 THEN Zero
       ELSE Num((x.n \div g1) * (y.n \div g2), (x.d \div g2) * (y.d \div g1))

RatDiv(x, y) == RatMul(x, [k |-> "num", n |-> Sign(y) * y.d, d |-> Abs(y.n)])

RatLeq(x, y) ==
    LET g == Gcd(x.d, y.d)
    IN x.n * (y.d \div g) <= y.n * (x.d \div g)

RatLt(x, y) == RatLeq(x, y) /\ x # y

\* round(x, 3) of a non-negative rational, as thousandths
Round3(x) ==
    LET y == RatMul(x, Whole(1000)) IN (2 * y.n + y.d) \div (2 * y.d)

---------------------------------------------------------------------------
(* Python / numpy operations on cells.  An operation that raises yields    *)
(* Raise(e) instead of a value.                                            *)

Raise(e) == [k |-> "exc", e |-> e]
IsExc(x) == x.k = "exc"

\* x == 0
PyEqZero(x) == IsNum(x) /\ x.n = 0

\* pd.isna(x) of a scalar
pd_isna(x) == x.k \in {"nan", "none"}

\* np.isinf(x) of a float
np_isinf(x) == x.k = "inf"

\* numerador / denominador
PyTrueDiv(x, y) ==
    IF ~IsFloat(x) \/ ~IsFloat(y) THEN Raise("TypeError")
    ELSE IF PyEqZero(y) THEN Raise("ZeroDivisionError")
    ELSE IF x.k = "nan" \/ y.k = "nan" THEN NaN
    ELSE IF x.k = "inf" /\ y.k = "inf" THEN NaN
    ELSE IF x.k = "inf" THEN (IF x.sgn * Sign(y) > 0 THEN PosInf ELSE NegInf)
    ELSE IF y.k = "inf" THEN Zero
    ELSE RatDiv(x, y)

\* x * y
PyMul(x, y) ==
    IF ~IsFloat(x) \/ ~IsFloat(y) THEN Raise("TypeError")
    ELSE IF x.k = "nan" \/ y.k = "nan" THEN NaN
    ELSE IF x.k = "inf" \/ y.k = "inf"
         THEN (IF Sign(x) * Sign(y) = 0 THEN NaN
               ELSE IF Sign(x) * Sign(y) > 0 THEN PosInf ELSE NegInf)
    ELSE RatMul(x, y)

\* x + y
PyAdd(x, y) ==
    IF ~IsFloat(x) \/ ~IsFloat(y) THEN Raise("TypeError")
    ELSE IF x.k = "nan" \/ y.k = "nan" THEN NaN
    ELSE IF x.k = "inf" /\ y.k = "inf" THEN (IF x.sgn = y.sgn THEN x ELSE NaN)
    ELSE IF x.k = "inf" THEN x
    ELSE IF y.k = "inf" THEN y
    ELSE RatAdd(x, y)

\* x > 0, x >= y, min(x, y) on finite floats
PyGtZero(x) == IsNum(x) /\ x.n > 0
PyGeq(x, y) == IsNum(x) /\ IsNum(y) /\ RatLeq(y, x)
PyMin(x, y) == IF RatLt(y, x) THEN y ELSE x

CaughtBySafeDivide == {"ZeroDivisionError", "TypeError", "ValueError"}

---------------------------------------------------------------------------
(* SafeArithmetic                                                          *)

\* a faulty variant: the quotient is returned without the NaN / inf screen
_safe_divide_unscreened(numerador, denominador) ==
    IF PyEqZero(denominador) \/ pd_isna(denominador) THEN Zero
    ELSE LET resultado == PyTrueDiv(numerador, denominador)
         IN IF IsExc(resultado) THEN Zero ELSE resultado

\* ReactiveAnalyzer._safe_divide
_safe_divide(numerador, denominador) ==
    IF PyEqZero(denominador) \/ pd_isna(denominador) THEN Zero
    ELSE LET resultado == PyTrueDiv(numerador, denominador)
         IN IF IsExc(resultado)
            THEN (IF resultado.e \in CaughtBySafeDivide THEN Zero ELSE resultado)
            ELSE IF pd_isna(resultado) \/ np_isinf(resultado) THEN Zero
            ELSE resultado

\* SSOCalculator._safe_divide
SSOCalculator_safe_divide(numerador, denominador) ==
    IF PyEqZero(denominador) \/ pd_isna(denominador) THEN Zero
    ELSE LET resultado == PyTrueDiv(numerador, denominador)
         IN IF IsExc(resultado)
            THEN (IF resultado.e \in CaughtBySafeDivide THEN Zero ELSE resultado)
            ELSE IF pd_isna(resultado) \/ np_isinf(resultado) THEN Zero
            ELSE resultado

---------------------------------------------------------------------------
(* Text.  str.lower, str.strip and str.replace(' ', '_') on the texts that *)
(* occur as column labels and month names of the input tables.             *)

StrLower(t) ==
    CASE t = "Mes" -> "mes"
      [] t = "Num_Trabajadores" -> "num_trabajadores"
      [] t = "Horas_Hombre_Mes" -> "horas_hombre_mes"
      [] t = "Horas_Extras" -> "horas_extras"
      [] t = "Acc_Baja" -> "acc_baja"
      [] t = "Acc_Sin_Baja" -> "acc_sin_baja"
      [] t = "Enf_Ocupacionales" -> "enf_ocupacionales"
      [] t = "Dias Perdidos" -> "dias perdidos"
      [] t = " NART_Prog " -> " nart_prog "
      [] t = "Cai Implement" -> "cai implement"
      [] t = "Enero" -> "enero"
      [] t = "Febrero" -> "febrero"
      [] t = "Marzo" -> "marzo"
      [] t = "Abril" -> "abril"
      [] t = "Mayo" -> "mayo"
      [] t = "Junio" -> "junio"
      [] t = "Julio" -> "julio"
      [] t = "Agosto" -> "agosto"
      [] t = "Septiembre" -> "septiembre"
      [] t = "Octubre" -> "octubre"
      [] t = "Noviembre" -> "noviembre"
      [] t = "Diciembre" -> "diciembre"
      [] t = " MARZO " -> " marzo "
      [] t = "Total" -> "total"
      [] t = "Horas" -> "horas"
      [] t = "Lesiones" -> "lesiones"
      [] t = "IART_R" -> "iart_r"
      [] t = "Opas Real" -> "opas real"
      [] OTHER -> t

StrStrip(t) ==
    CASE t = " marzo " -> "marzo"
      [] t = " MARZO " -> "MARZO"
      [] t = " nart_prog " -> "nart_prog"
      [] t = " NART_Prog " -> "NART_Prog"
      [] OTHER -> t

StrReplaceSpace(t) ==
    CASE t = "dias perdidos" -> "dias_perdidos"
      [] t = "Dias Perdidos" -> "Dias_Perdidos"
      [] t = "cai implement" -> "cai_implement"
      [] t = "Cai Implement" -> "Cai_Implement"
      [] t = "Opas Real" -> "Opas_Real"
      [] t = "horas trabajadas" -> "horas_trabajadas"
      [] t = "número de lesiones" -> "número_de_lesiones"
      [] t = "días perdidos" -> "días_perdidos"
      [] t = "iart real" -> "iart_real"
      [] t = "iart programado" -> "iart_programado"
      [] t = "opas real" -> "opas_real"
      [] t = "opas programado" -> "opas_programado"
      [] t = "idps real" -> "idps_real"
      [] t = "idps programado" -> "idps_programado"
      [] t = "ids real" -> "ids_real"
      [] t = "ids programado" -> "ids_programado"
      [] t = "ients real" -> "ients_real"
      [] t = "ients programado" -> "ients_programado"
      [] t = "iosea real" -> "iosea_real"
      [] t = "iosea programado" -> "iosea_programado"
      [] t = "icai real" -> "icai_real"
      [] t = "icai programado" -> "icai_programado"
      [] OTHER -> t

\* col.lower().strip().replace(' ', '_')
NormalizarColumna(col) == StrReplaceSpace(StrStrip(StrLower(col)))

---------------------------------------------------------------------------
(* Tables.  A DataFrame is [columns: sequence of labels, rows: sequence of *)
(* rows], a row being a function from the labels to cells.                 *)

Range(q) == {q[i] : i \in 1..Len(q)}

RECURSIVE SeqOfSet(_)
SeqOfSet(S) == IF S = {} THEN <<>>
               ELSE LET x == CHOOSE y \in S : TRUE IN <<x>> \o SeqOfSet(S \ {x})

Reverse(q) == [i \in 1..Len(q) |-> q[Len(q) + 1 - i]]

\* a table of the given columns and rows, the rows held as a list of dicts
DataFrame(columns, rows) ==
    [k |-> "df", columns |-> columns,
     rows |-> [r \in 1..Len(rows) |-> rows[r] @@ <<>>] \o <<>>]

\* the columns of df relabelled as the sequence `new`
WithLabels(df, new) ==
    DataFrame(new,
      [r \in 1..Len(df.rows) |->
         [c \in Range(new) |->
            df.rows[r][df.columns[CHOOSE i \in 1..Len(new) : new[i] = c]]]])

\* df.columns = [col.lower().strip().replace(' ', '_') for col in df.columns]
RenameColumns(df) ==
    WithLabels(df, [i \in 1..Len(df.columns) |-> NormalizarColumna(df.columns[i])]
                   \o <<>>)

\* df[col] = value, a cell for every row
WithColumn(df, col, value) ==
    DataFrame(IF col \in Range(df.columns) THEN df.columns
              ELSE Append(df.columns, col),
              [r \in 1..Len(df.rows) |-> (col :> value[r]) @@ df.rows[r]])

\* pd.to_numeric(x, errors='coerce') of one cell
to_numeric(x) ==
    CASE IsFloat(x) -> x
      [] x.k = "str" /\ x.s = "12" -> Whole(12)
      [] OTHER -> NaN

\* .fillna(0) of one cell
fillna0(x) == IF pd_isna(x) THEN Zero ELSE x

\* sum of a column: Series.sum(), NaN skipped
RECURSIVE SumCells(_)
SumCells(q) ==
    IF q = <<>> THEN Zero
    ELSE IF pd_isna(Head(q)) THEN SumCells(Tail(q))
    ELSE PyAdd(Head(q), SumCells(Tail(q)))

Column(rows, col) == [i \in 1..Len(rows) |-> rows[i][col]]

\* Series.mean(): NaN of an empty column
MeanCells(q) == IF q = <<>> THEN NaN ELSE PyTrueDiv(SumCells(q), Whole(Len(q)))

Builds == {"stable", "reversed"}

\* the least integer cell `key` of the rows
MinKey(rows, key) ==
    CHOOSE v \in {rows[i][key].n : i \in 1..Len(rows)} :
      \A j \in 1..Len(rows) : v <= rows[j][key].n

\* rows in ascending order of the integer cell `key`, equal keys keeping
\* their order
RECURSIVE StableSort(_, _)
StableSort(rows, key) ==
    IF rows = <<>> THEN <<>>
    ELSE LET Split(lo) ==
                 LET IsLo(r) == r[key].n = lo
                     NotLo(r) == r[key].n # lo
                 IN SelectSeq(rows, IsLo)
                      \o StableSort(SelectSeq(rows, NotLo), key)
         IN Split(MinKey(rows, key))

\* df.sort_values(key).reset_index(drop=True): the default kind is numpy's
\* quicksort, which is not stable, so the order of rows with equal keys
\* depends on the build: `b` is that order
sort_values(b, rows, key) ==
    IF b = "stable" THEN StableSort(rows, key) ELSE StableSort(Reverse(rows), key)

---------------------------------------------------------------------------
(* ReactiveAnalyzer                                                        *)

K_MENSUAL == Num(1666667, 100)
K_TRIMESTRAL == Whole(50000)
K_ANUAL == Whole(200000)
\* the class attribute K = ConstantesK()
K == [MENSUAL |-> K_MENSUAL, TRIMESTRAL |-> K_TRIMESTRAL, ANUAL |-> K_ANUAL]

HORAS_MENSUALES_STD == Num(17333, 100)

MESES_ORDEN == <<"enero", "febrero", "marzo", "abril", "mayo", "junio",
                 "julio", "agosto", "septiembre", "octubre", "noviembre",
                 "diciembre">>

TRIMESTRES ==
    <<[nombre |-> "PRIMER TRIMESTRE", meses |-> {"enero", "febrero", "marzo"}],
      [nombre |-> "SEGUNDO TRIMESTRE", meses |-> {"abril", "mayo", "junio"}],
      [nombre |-> "TERCER TRIMESTRE", meses |-> {"julio", "agosto", "septiembre"}],
      [nombre |-> "CUARTO TRIMESTRE", meses |-> {"octubre", "noviembre", "diciembre"}]>>

COLUMNAS_REQUERIDAS ==
    <<"mes", "num_trabajadores", "horas_hombre_mes", "acc_baja",
      "acc_sin_baja", "enf_ocupacionales", "dias_perdidos">>

columnas_numericas ==
    {"num_trabajadores", "horas_hombre_mes", "acc_baja", "acc_sin_baja",
     "enf_ocupacionales", "dias_perdidos"}

\* MESES_ORDEN.index(x) if x in MESES_ORDEN else 99
MesOrden(x) ==
    IF x.k = "str" /\ x.s \in Range(MESES_ORDEN)
    THEN (CHOOSE i \in 1..12 : MESES_ORDEN[i] = x.s) - 1
    ELSE 99

\* Series.str.lower().str.strip() of one cell: NaN where the cell is no text
StrLowerStrip(x) == IF x.k = "str" THEN Str(StrStrip(StrLower(x.s))) ELSE NaN

\* a faulty variant: only the first missing column is reported
_validar_columnas_first(df) ==
    LET In(col) == col \notin Range(df.columns)
        faltantes == SelectSeq(COLUMNAS_REQUERIDAS, In)
    IN IF faltantes # <<>>
       THEN [k |-> "exc", e |-> "ValueError",
             faltantes |-> <<Head(faltantes)>>, encontradas |-> df.columns]
       ELSE None

\* ReactiveAnalyzer._validar_columnas: None, or the ValueError raised, whose
\* message lists `faltantes` and then the columns found
_validar_columnas(df) ==
    LET In(col) == col \notin Range(df.columns)
        faltantes == SelectSeq(COLUMNAS_REQUERIDAS, In)
    IN IF faltantes # <<>>
       THEN [k |-> "exc", e |-> "ValueError",
             faltantes |-> faltantes, encontradas |-> df.columns]
       ELSE None

\* a faulty variant: overtime is added to the supplied hours as well
TotalHoras_plus_extras(row) ==
    IF PyGtZero(row["horas_hombre_mes"])
    THEN PyAdd(row["horas_hombre_mes"], row["horas_extras"])
    ELSE PyAdd(PyMul(row["num_trabajadores"], HORAS_MENSUALES_STD),
               row["horas_extras"])

\* the lambda of _preparar_datos_base that gives total_horas
TotalHoras(row) ==
    IF PyGtZero(row["horas_hombre_mes"]) THEN row["horas_hombre_mes"]
    ELSE PyAdd(PyMul(row["num_trabajadores"], HORAS_MENSUALES_STD),
               row["horas_extras"])

\* a faulty variant: illnesses are left out of the injury total
TotalLesiones_sin_enf(row) == PyAdd(row["acc_baja"], row["acc_sin_baja"])

\* df['total_lesiones'] of _preparar_datos_base
TotalLesiones(row) ==
    PyAdd(PyAdd(row["acc_baja"], row["acc_sin_baja"]), row["enf_ocupacionales"])

\* pd.to_numeric(df[col], errors='coerce').fillna(0) for the numeric columns
\* the table has, and for horas_extras, which is 0 where the table lacks it
Numericas(df) ==
    LET d1 == DataFrame(df.columns,
                [r \in 1..Len(df.rows) |->
                   [c \in Range(df.columns) |->
                      IF c \in columnas_numericas \/ c = "horas_extras"
                      THEN fillna0(to_numeric(df.rows[r][c]))
                      ELSE df.rows[r][c]]])
    IN IF "horas_extras" \in Range(df.columns) THEN d1
       ELSE WithColumn(d1, "horas_extras", [r \in 1..Len(df.rows) |-> Zero])

\* df['total_lesiones'] = ...
ConTotalLesiones(df) ==
    WithColumn(df, "total_lesiones",
               [r \in 1..Len(df.rows) |-> TotalLesiones(df.rows[r])])

\* df['total_horas'] = df.apply(...)
ConTotalHoras(df) ==
    WithColumn(df, "total_horas",
               [r \in 1..Len(df.rows) |-> TotalHoras(df.rows[r])])

\* df['mes'] = df['mes'].str.lower().str.strip()
ConMes(df) ==
    WithColumn(df, "mes",
               [r \in 1..Len(df.rows) |-> StrLowerStrip(df.rows[r]["mes"])])

\* df['mes_orden'] = df['mes'].apply(...)
ConMesOrden(df) ==
    WithColumn(df, "mes_orden",
               [r \in 1..Len(df.rows) |-> Whole(MesOrden(df.rows[r]["mes"]))])

\* df.sort_values('mes_orden').reset_index(drop=True)
Ordenada(b, df) == DataFrame(df.columns, sort_values(b, df.rows, "mes_orden"))

\* ReactiveAnalyzer._preparar_datos_base
_preparar_datos_base(b, df) ==
    Ordenada(b, ConMesOrden(ConMes(ConTotalHoras(ConTotalLesiones(
      Numericas(df))))))

\* ReactiveAnalyzer._calcular_indices_meses
_calcular_indices_meses(df) ==
    LET IFm(row) == _safe_divide(PyMul(row["total_lesiones"], K.MENSUAL),
                                 row["total_horas"])
        IGm(row) == _safe_divide(PyMul(row["dias_perdidos"], K.MENSUAL),
                                 row["total_horas"])
        TRm(row) == _safe_divide(row["dias_perdidos"], row["total_lesiones"])
    IN WithColumn(WithColumn(WithColumn(WithColumn(WithColumn(df,
         "IF", [r \in 1..Len(df.rows) |-> IFm(df.rows[r])]),
         "IG", [r \in 1..Len(df.rows) |-> IGm(df.rows[r])]),
         "TR", [r \in 1..Len(df.rows) |-> TRm(df.rows[r])]),
         "tipo_fila", [r \in 1..Len(df.rows) |-> Str("mes")]),
         "constante_k", [r \in 1..Len(df.rows) |-> K.MENSUAL])

\* a faulty variant: the summary index is the mean of the months' indices
_crear_fila_resumen_mean(df_periodo, nombre, tipo, constante_k, orden) ==
    LET total_lesiones == SumCells(Column(df_periodo, "total_lesiones"))
        total_horas == SumCells(Column(df_periodo, "total_horas"))
        dias_perdidos == SumCells(Column(df_periodo, "dias_perdidos"))
    IN [mes |-> Str(nombre),
        num_trabajadores |-> MeanCells(Column(df_periodo, "num_trabajadores")),
        horas_hombre_mes |-> total_horas,
        horas_extras |-> SumCells(Column(df_periodo, "horas_extras")),
        acc_baja |-> SumCells(Column(df_periodo, "acc_baja")),
        acc_sin_baja |-> SumCells(Column(df_periodo, "acc_sin_baja")),
        enf_ocupacionales |-> SumCells(Column(df_periodo, "enf_ocupacionales")),
        dias_perdidos |-> dias_perdidos,
        total_lesiones |-> total_lesiones,
        total_horas |-> total_horas,
        tipo_fila |-> Str(tipo),
        constante_k |-> constante_k,
        mes_orden |-> Whole(orden)]
       @@ ("IF" :> fillna0(MeanCells(Column(df_periodo, "IF"))))
       @@ ("IG" :> fillna0(MeanCells(Column(df_periodo, "IG"))))
       @@ ("TR" :> _safe_divide(dias_perdidos, total_lesiones))

\* a faulty variant: a summary row carries the first month's counts, not the sums
_crear_fila_resumen_first(df_periodo, nombre, tipo, constante_k, orden) ==
    LET First(col) == IF df_periodo = <<>> THEN Zero ELSE df_periodo[1][col]
        total_lesiones == First("total_lesiones")
        total_horas == First("total_horas")
        dias_perdidos == First("dias_perdidos")
    IN [mes |-> Str(nombre),
        num_trabajadores |-> MeanCells(Column(df_periodo, "num_trabajadores")),
        horas_hombre_mes |-> total_horas,
        horas_extras |-> SumCells(Column(df_periodo, "horas_extras")),
        acc_baja |-> First("acc_baja"),
        acc_sin_baja |-> First("acc_sin_baja"),
        enf_ocupacionales |-> First("enf_ocupacionales"),
        dias_perdidos |-> dias_perdidos,
        total_lesiones |-> total_lesiones,
        total_horas |-> total_horas,
        tipo_fila |-> Str(tipo),
        constante_k |-> constante_k,
        mes_orden |-> Whole(orden)]
       @@ ("IF" :> _safe_divide(PyMul(total_lesiones, constante_k), total_horas))
       @@ ("IG" :> _safe_divide(PyMul(dias_perdidos, constante_k), total_horas))
       @@ ("TR" :> _safe_divide(dias_perdidos, total_lesiones))

\* ReactiveAnalyzer._crear_fila_resumen; df_periodo is the period's rows
_crear_fila_resumen(df_periodo, nombre, tipo, constante_k, orden) ==
    LET total_lesiones == SumCells(Column(df_periodo, "total_lesiones"))
        total_horas == SumCells(Column(df_periodo, "total_horas"))
        dias_perdidos == SumCells(Column(df_periodo, "dias_perdidos"))
    IN [mes |-> Str(nombre),
        num_trabajadores |-> MeanCells(Column(df_periodo, "num_trabajadores")),
        horas_hombre_mes |-> total_horas,
        horas_extras |-> SumCells(Column(df_periodo, "horas_extras")),
        acc_baja |-> SumCells(Column(df_periodo, "acc_baja")),
        acc_sin_baja |-> SumCells(Column(df_periodo, "acc_sin_baja")),
        enf_ocupacionales |-> SumCells(Column(df_periodo, "enf_ocupacionales")),
        dias_perdidos |-> dias_perdidos,
        total_lesiones |-> total_lesiones,
        total_horas |-> total_horas,
        tipo_fila |-> Str(tipo),
        constante_k |-> constante_k,
        mes_orden |-> Whole(orden)]
       @@ ("IF" :> _safe_divide(PyMul(total_lesiones, constante_k), total_horas))
       @@ ("IG" :> _safe_divide(PyMul(dias_perdidos, constante_k), total_horas))
       @@ ("TR" :> _safe_divide(dias_perdidos, total_lesiones))

\* the keys of the dict _crear_fila_resumen returns, in order
ClavesResumen ==
    <<"mes", "num_trabajadores", "horas_hombre_mes", "horas_extras",
      "acc_baja", "acc_sin_baja", "enf_ocupacionales", "dias_perdidos",
      "total_lesiones", "total_horas", "IF", "IG", "TR", "tipo_fila",
      "constante_k", "mes_orden">>

\* the keys of the dicts in order of first appearance; claves[i] are the keys
\* of the i-th dict in order
RECURSIVE Keys(_, _, _)
Keys(claves, i, acc) ==
    IF i > Len(claves) THEN acc
    ELSE LET Fresh(c) == c \notin Range(acc)
         IN Keys(claves, i + 1, acc \o SelectSeq(claves[i], Fresh))

\* the dicts as the rows of a table of the given columns, a key a dict lacks
\* being NaN
DictsAsRows(dicts, columns) ==
    DataFrame(columns,
         [r \in 1..Len(dicts) |->
            [c \in Range(columns) |->
               IF c \in DOMAIN dicts[r] THEN dicts[r][c] ELSE NaN]])

\* pd.DataFrame(list of dicts)
DataFrameOfDicts(dicts, claves) == DictsAsRows(dicts, Keys(claves, 1, <<>>))

\* the rows of df_meses whose month belongs to quarter t
df_trim(df_meses, t) ==
    LET InTrim(row) == row["mes"].k = "str"
                       /\ row["mes"].s \in TRIMESTRES[t].meses
    IN SelectSeq(df_meses.rows, InTrim)

\* what the loop of _insertar_resúmenes appends for quarter t, whose months'
\* rows are df_trimestre
Bloque(df_trimestre, t) ==
    IF Len(df_trimestre) > 0
    THEN Append(df_trimestre,
                _crear_fila_resumen(df_trimestre, TRIMESTRES[t].nombre,
                                    "trimestre", K.TRIMESTRAL, t * 3))
    ELSE <<>>

\* filas_resultado of _insertar_resúmenes
filas_resultado(df_meses) ==
    Bloque(df_trim(df_meses, 1), 1) \o Bloque(df_trim(df_meses, 2), 2)
    \o Bloque(df_trim(df_meses, 3), 3) \o Bloque(df_trim(df_meses, 4), 4)
    \o <<_crear_fila_resumen(df_meses.rows, "TOTAL AÑO", "anual", K.ANUAL, 99)>>

\* pd.DataFrame(filas), a month row being a dict with the columns of df_meses
\* as keys and a summary row one with the keys of _crear_fila_resumen
TablaDeFilas(filas, columns) ==
    DataFrameOfDicts(filas,
      [i \in 1..Len(filas) |->
         IF filas[i]["tipo_fila"] = Str("mes") THEN columns ELSE ClavesResumen]
      \o <<>>)

\* ReactiveAnalyzer._insertar_resúmenes
_insertar_resumenes(b, df_meses) ==
    Ordenada(b, TablaDeFilas(filas_resultado(df_meses), df_meses.columns))

\* a faulty variant: only the Year row is left out
SoloMeses_sin_anual(df) ==
    LET NoAnual(row) == row["tipo_fila"] # Str("anual")
    IN DataFrame(df.columns, SelectSeq(df.rows, NoAnual))

\* df_reporte[df_reporte['tipo_fila'] == 'mes'].copy()
SoloMeses(df) ==
    LET EsMes(row) == row["tipo_fila"] = Str("mes")
    IN DataFrame(df.columns, SelectSeq(df.rows, EsMes))

---------------------------------------------------------------------------
(* ProactiveCalculator                                                     *)

META_DEFAULT == Whole(80)

Config(codigo, num, den, peso) ==
    [codigo |-> codigo, col_numerador |-> num, col_denominador |-> den,
     peso |-> peso]

\* a faulty variant: IENTS weighs 4, as in the dashboard's own table of weights
INDICADORES_ients4 ==
    <<Config("IART", "nart_ejec", "nart_prog", 5),
      Config("OPAS", "opas_efectivo", "opas_programado", 3),
      Config("IDPS", "dps_efectivo", "dps_programado", 2),
      Config("IDS", "ds_eliminadas", "ds_detectadas", 3),
      Config("IENTS", "ent_entrenados", "ent_programados", 4),
      Config("IOSEA", "osea_cumplidos", "osea_aplicables", 4),
      Config("ICAI", "cai_implement", "cai_propuestas", 4),
      Config("IEF", "ef_auditados", "ef_totales", 0)>>

\* a faulty variant: IEF enters the weighting with weight 1
INDICADORES_ief1 ==
    <<Config("IART", "nart_ejec", "nart_prog", 5),
      Config("OPAS", "opas_efectivo", "opas_programado", 3),
      Config("IDPS", "dps_efectivo", "dps_programado", 2),
      Config("IDS", "ds_eliminadas", "ds_detectadas", 3),
      Config("IENTS", "ent_entrenados", "ent_programados", 1),
      Config("IOSEA", "osea_cumplidos", "osea_aplicables", 4),
      Config("ICAI", "cai_implement", "cai_propuestas", 4),
      Config("IEF", "ef_auditados", "ef_totales", 1)>>

\* ProactiveCalculator.INDICADORES, in the order of the dict
INDICADORES ==
    <<Config("IART", "nart_ejec", "nart_prog", 5),
      Config("OPAS", "opas_efectivo", "opas_programado", 3),
      Config("IDPS", "dps_efectivo", "dps_programado", 2),
      Config("IDS", "ds_eliminadas", "ds_detectadas", 3),
      Config("IENTS", "ent_entrenados", "ent_programados", 1),
      Config("IOSEA", "osea_cumplidos", "osea_aplicables", 4),
      Config("ICAI", "cai_implement", "cai_propuestas", 4),
      Config("IEF", "ef_auditados", "ef_totales", 0)>>

P_COLUMNAS_REQUERIDAS ==
    <<"mes", "nart_prog", "nart_ejec",
      "opas_prog", "opas_real", "opas_personas_prev", "opas_personas_conf",
      "dps_plan", "dps_real", "dps_previstos", "dps_asistentes",
      "ds_detectadas", "ds_eliminadas", "ent_programados", "ent_entrenados",
      "osea_aplicables", "osea_cumplidos", "cai_propuestas", "cai_implement",
      "ef_totales", "ef_auditados">>

\* Python truth value, and `a or b`
Truthy(x) ==
    CASE x.k = "none" -> FALSE
      [] x.k = "num" -> x.n # 0
      [] x.k = "str" -> x.s # ""
      [] OTHER -> TRUE
PyOr(a, b) == IF Truthy(a) THEN a ELSE b

\* ProactiveCalculator.__init__: the instance built
ProactiveCalculator(meta) ==
    [meta |-> PyOr(meta, META_DEFAULT), df_resultado |-> None]

\* ProactiveCalculator._validar_columnas
P_validar_columnas(df) ==
    LET In(col) == col \notin Range(df.columns)
        faltantes == SelectSeq(P_COLUMNAS_REQUERIDAS, In)
    IN IF faltantes # <<>>
       THEN [k |-> "exc", e |-> "ValueError", faltantes |-> faltantes]
       ELSE None

\* pd.to_numeric(df[col], errors='coerce').fillna(0) for every column but mes
P_Numericas(df) ==
    DataFrame(df.columns,
      [r \in 1..Len(df.rows) |->
         [c \in Range(df.columns) |->
            IF c # "mes" THEN fillna0(to_numeric(df.rows[r][c]))
            ELSE df.rows[r][c]]])

\* a faulty variant: the records stay in the order of the input
_preparar_datos_sin_ordenar(b, df) == ConMesOrden(ConMes(P_Numericas(df)))

\* ProactiveCalculator._preparar_datos
_preparar_datos(b, df) == Ordenada(b, ConMesOrden(ConMes(P_Numericas(df))))

\* a faulty variant: the compound columns keep only the activity counts
_calcular_columnas_compuestas_simple(df) ==
    LET OpasEf(row) == row["opas_real"]
        OpasPr(row) == row["opas_prog"]
        DpsEf(row) == row["dps_real"]
        DpsPr(row) == row["dps_plan"]
    IN WithColumn(WithColumn(WithColumn(WithColumn(df,
         "opas_efectivo", [r \in 1..Len(df.rows) |-> OpasEf(df.rows[r])]),
         "opas_programado", [r \in 1..Len(df.rows) |-> OpasPr(df.rows[r])]),
         "dps_efectivo", [r \in 1..Len(df.rows) |-> DpsEf(df.rows[r])]),
         "dps_programado", [r \in 1..Len(df.rows) |-> DpsPr(df.rows[r])])

\* ProactiveCalculator._calcular_columnas_compuestas
_calcular_columnas_compuestas(df) ==
    LET OpasEf(row) == PyMul(row["opas_real"], row["opas_personas_conf"])
        OpasPr(row) == PyMul(row["opas_prog"], row["opas_personas_prev"])
        DpsEf(row) == PyMul(row["dps_real"], row["dps_asistentes"])
        DpsPr(row) == PyMul(row["dps_plan"], row["dps_previstos"])
    IN WithColumn(WithColumn(WithColumn(WithColumn(df,
         "opas_efectivo", [r \in 1..Len(df.rows) |-> OpasEf(df.rows[r])]),
         "opas_programado", [r \in 1..Len(df.rows) |-> OpasPr(df.rows[r])]),
         "dps_efectivo", [r \in 1..Len(df.rows) |-> DpsEf(df.rows[r])]),
         "dps_programado", [r \in 1..Len(df.rows) |-> DpsPr(df.rows[r])])

\* a faulty variant: the percentage is not capped at 100
_calcular_indicador_uncapped(numerador, denominador) ==
    IF PyEqZero(denominador) \/ pd_isna(denominador) THEN Zero
    ELSE LET q == PyTrueDiv(numerador, denominador)
             resultado == IF IsExc(q) THEN q ELSE PyMul(q, Whole(100))
         IN IF IsExc(resultado) THEN Zero
            ELSE IF pd_isna(resultado) \/ np_isinf(resultado) THEN Zero
            ELSE resultado

\* ProactiveCalculator._calcular_indicador
_calcular_indicador(numerador, denominador) ==
    IF PyEqZero(denominador) \/ pd_isna(denominador) THEN Zero
    ELSE LET q == PyTrueDiv(numerador, denominador)
             resultado == IF IsExc(q) THEN q ELSE PyMul(q, Whole(100))
         IN IF IsExc(resultado)
            THEN (IF resultado.e \in CaughtBySafeDivide THEN Zero ELSE resultado)
            ELSE IF pd_isna(resultado) \/ np_isinf(resultado) THEN Zero
            ELSE PyMin(resultado, Whole(100))

\* row.get(label, 0)
RowGet(row, label) == IF label \in DOMAIN row THEN row[label] ELSE Zero

\* a faulty variant: the divisor counts only the indicators the row carries
_calcular_ig_total_present(row) ==
    LET RECURSIVE Acc(_, _, _)
        Acc(i, suma_ponderada, suma_pesos) ==
            IF i > Len(INDICADORES)
            THEN IF suma_pesos = 0 THEN Zero
                 ELSE PyTrueDiv(suma_ponderada, Whole(suma_pesos))
            ELSE IF INDICADORES[i].peso > 0
                    /\ INDICADORES[i].codigo \in DOMAIN row
            THEN Acc(i + 1,
                     PyAdd(suma_ponderada,
                           PyMul(Whole(INDICADORES[i].peso),
                                 RowGet(row, INDICADORES[i].codigo))),
                     suma_pesos + INDICADORES[i].peso)
            ELSE Acc(i + 1, suma_ponderada, suma_pesos)
    IN Acc(1, Zero, 0)

\* ProactiveCalculator._calcular_ig_total
_calcular_ig_total(row) ==
    LET RECURSIVE Acc(_, _, _)
        Acc(i, suma_ponderada, suma_pesos) ==
            IF i > Len(INDICADORES)
            THEN IF suma_pesos = 0 THEN Zero
                 ELSE PyTrueDiv(suma_ponderada, Whole(suma_pesos))
            ELSE IF INDICADORES[i].peso > 0
            THEN Acc(i + 1,
                     PyAdd(suma_ponderada,
                           PyMul(Whole(INDICADORES[i].peso),
                                 RowGet(row, INDICADORES[i].codigo))),
                     suma_pesos + INDICADORES[i].peso)
            ELSE Acc(i + 1, suma_ponderada, suma_pesos)
    IN Acc(1, Zero, 0)

\* the loop of procesar over INDICADORES
RECURSIVE ConIndicadores(_, _)
ConIndicadores(df, i) ==
    IF i > Len(INDICADORES) THEN df
    ELSE LET Valor(row) ==
                 _calcular_indicador(RowGet(row, INDICADORES[i].col_numerador),
                                     RowGet(row, INDICADORES[i].col_denominador))
         IN ConIndicadores(
              WithColumn(df, INDICADORES[i].codigo,
                         [r \in 1..Len(df.rows) |-> Valor(df.rows[r])]),
              i + 1)

\* SSOCalculator.PESOS and SUMA_PESOS
PESOS == [IART |-> 5, OPAS |-> 3, IDPS |-> 2, IDS |-> 3, IENTS |-> 1,
          IOSEA |-> 4, ICAI |-> 4]
SUMA_PESOS ==
    PESOS.IART + PESOS.OPAS + PESOS.IDPS + PESOS.IDS + PESOS.IENTS
    + PESOS.IOSEA + PESOS.ICAI

\* SSOCalculator.calcular_ig_total
calcular_ig_total(iart, opas, idps, ids, ients, iosea, icai) ==
    LET T(w, x) == PyMul(Whole(w), x)
        ponderado ==
            PyAdd(PyAdd(PyAdd(PyAdd(PyAdd(PyAdd(
              T(PESOS.IART, iart), T(PESOS.OPAS, opas)), T(PESOS.IDPS, idps)),
              T(PESOS.IDS, ids)), T(PESOS.IENTS, ients)),
              T(PESOS.IOSEA, iosea)), T(PESOS.ICAI, icai))
        r == IF IsExc(ponderado) THEN ponderado
             ELSE PyTrueDiv(ponderado, Whole(SUMA_PESOS))
    IN IF IsExc(r) /\ r.e \in {"TypeError", "ValueError"} THEN Zero ELSE r

---------------------------------------------------------------------------
(* Input tables.  The tables a caller hands to procesar are drawn from     *)
(* families indexed by a data pattern 0..MaxPattern, a list of month       *)
(* names and a set of column labels.                                       *)

MaxPattern == 3

Patterns == 0..MaxPattern

Meses12 == MESES_ORDEN
MesesDemo == <<"Enero", "Febrero", "Marzo", "Abril", "Mayo", "Junio",
               "Julio", "Agosto", "Septiembre", "Octubre", "Noviembre",
               "Diciembre">>
MesesDesorden == <<"diciembre", "Abril", " MARZO ", "febrero", "noviembre",
                   "junio", "enero", "octubre", "mayo", "agosto", "julio",
                   "septiembre">>
MesesSemestre == <<"enero", "febrero", "marzo", "abril", "mayo", "junio">>
MesesSueltos == <<"agosto", "febrero", "julio">>
MesesConTotal == <<"enero", "febrero", "Total", "marzo", "abril">>
MesesRepetidos == <<"enero", "febrero", "enero", "Total", "total">>

\* the month lists with exactly one record per calendar month
ListasValidas == {Meses12, MesesDemo, MesesDesorden}
ListasParciales == {MesesSemestre, MesesSueltos, MesesConTotal, MesesRepetidos}

R_Canonicas == <<"mes", "num_trabajadores", "horas_hombre_mes", "horas_extras",
                 "acc_baja", "acc_sin_baja", "enf_ocupacionales",
                 "dias_perdidos">>
R_Demo == <<"Mes", "Num_Trabajadores", "Horas_Hombre_Mes", "Horas_Extras",
            "Acc_Baja", "Acc_Sin_Baja", "Enf_Ocupacionales", "Dias Perdidos",
            "anio">>

\* the cell of field `campo` in the i-th record (i from 0) of pattern s
RCell(s, i, campo, mes) ==
    CASE campo = "mes" -> Str(mes)
      [] campo = "anio" -> Whole(2025)
      [] campo = "num_trabajadores" ->
            IF (i + s) % 6 = 0 THEN Zero ELSE Whole(80 + 10 * ((i + 2 * s) % 4))
      [] campo = "horas_hombre_mes" ->
            IF s = 2 /\ i = 7 THEN Str("12")
            ELSE IF (i + s) % 5 = 0 THEN Zero
            ELSE Whole(8000 * (1 + ((i + s) % 2)))
      [] campo = "horas_extras" -> Whole(25 * ((i + s) % 3))
      [] campo = "acc_baja" ->
            IF s = 2 /\ i = 5 THEN None ELSE Whole((i + s) % 3)
      [] campo = "acc_sin_baja" -> Whole((i * (s + 1)) % 4)
      [] campo = "enf_ocupacionales" -> Whole(((i \div 3) + s + 1) % 2)
      [] campo = "dias_perdidos" ->
            IF s = 2 /\ i = 4 THEN Str("abc")
            ELSE Whole(5 * ((i * s + i + s + 1) % 4))

\* the record at position r holds the data of index Perm[r]
Identidad == [r \in 1..12 |-> r - 1]
Permutada == [r \in 1..12 |-> CASE r = 1 -> 1 [] r = 2 -> 0 [] r = 10 -> 11
                                [] r = 12 -> 9 [] OTHER -> r - 1]

RTable(s, meses, columns, perm) ==
    DataFrame(columns,
      [r \in 1..Len(meses) |->
         [c \in Range(columns) |->
            RCell(s, perm[r], NormalizarColumna(c), meses[r])]])

Sin(columns, drop) ==
    LET Keep(c) == c \notin drop IN SelectSeq(columns, Keep)

\* Scenario A of the specification: 2 injuries, 10 lost days, 16000 hours
EscenarioA ==
    DataFrame(Sin(R_Canonicas, {"horas_extras"}),
      <<[mes |-> Str("enero"), num_trabajadores |-> Whole(100),
         horas_hombre_mes |-> Whole(16000), acc_baja |-> Whole(1),
         acc_sin_baja |-> Whole(1), enf_ocupacionales |-> Zero,
         dias_perdidos |-> Whole(10)]>>)

ReactiveInputs ==
    {RTable(s, Meses12, R_Canonicas, Identidad) : s \in Patterns}
    \cup {RTable(s, Meses12, R_Canonicas, Permutada) : s \in {1, 2}}
    \cup {RTable(1, m, R_Canonicas, Identidad) :
            m \in {MesesDemo, MesesDesorden} \cup ListasParciales}
    \cup {RTable(2, m, R_Demo, Identidad) : m \in {MesesDemo, MesesConTotal}}
    \cup {RTable(0, Meses12, Sin(R_Canonicas, d), Identidad) :
            d \in {{"horas_extras"}, {"dias_perdidos"},
                   {"acc_baja", "dias_perdidos"}, {"mes", "horas_hombre_mes"}}}
    \cup {RTable(1, MesesSueltos, Sin(R_Demo, {"Dias Perdidos", "Mes"}),
                 Identidad)}
    \cup {EscenarioA}

\* <<executed, planned>> pairs of a simple family
Pares == <<<<0, 0>>, <<0, 10>>, <<5, 10>>, <<10, 10>>, <<12, 10>>, <<3, 4>>,
           <<7, 0>>, <<1, 3>>>>

\* <<realized, compliant, programmed, expected>> of a compound family; the
\* first is Scenario C of the specification
Cuadruplas == <<<<8, 30, 10, 40>>, <<0, 0, 0, 0>>, <<10, 40, 10, 40>>,
                <<12, 50, 10, 40>>, <<5, 20, 0, 40>>, <<5, 20, 10, 0>>,
                <<6, 10, 8, 20>>, <<0, 10, 5, 20>>>>

\* family number, and place within the pair or quadruple, of an input column
PCampo(campo) ==
    CASE campo = "nart_ejec" -> <<1, 1>> [] campo = "nart_prog" -> <<1, 2>>
      [] campo = "opas_real" -> <<2, 1>> [] campo = "opas_personas_conf" -> <<2, 2>>
      [] campo = "opas_prog" -> <<2, 3>> [] campo = "opas_personas_prev" -> <<2, 4>>
      [] campo = "dps_real" -> <<3, 1>> [] campo = "dps_asistentes" -> <<3, 2>>
      [] campo = "dps_plan" -> <<3, 3>> [] campo = "dps_previstos" -> <<3, 4>>
      [] campo = "ds_eliminadas" -> <<4, 1>> [] campo = "ds_detectadas" -> <<4, 2>>
      [] campo = "ent_entrenados" -> <<5, 1>> [] campo = "ent_programados" -> <<5, 2>>
      [] campo = "osea_cumplidos" -> <<6, 1>> [] campo = "osea_aplicables" -> <<6, 2>>
      [] campo = "cai_implement" -> <<7, 1>> [] campo = "cai_propuestas" -> <<7, 2>>
      [] campo = "ef_auditados" -> <<8, 1>> [] campo = "ef_totales" -> <<8, 2>>

\* the cell of field `campo` in the i-th record (i from 0) of pattern s:
\* pattern 0 gives every family of a record the same pair, the others shift
\* the pair from family to family
PCell(s, i, campo, mes) ==
    CASE campo = "mes" -> Str(mes)
      [] campo = "anio" -> Whole(2025)
      [] OTHER ->
           LET f == PCampo(campo)[1]
               j == PCampo(campo)[2]
               at == ((i + s * f) % 8) + 1
           IN IF s = 2 /\ i = 3 /\ campo = "nart_ejec" THEN Str("abc")
              ELSE IF s = 2 /\ i = 4 /\ campo = "ds_detectadas" THEN None
              ELSE IF f \in {2, 3} THEN Whole(Cuadruplas[at][j])
              ELSE Whole(Pares[at][j])

P_Canonicas == P_COLUMNAS_REQUERIDAS
P_Demo == <<"Mes", " NART_Prog ", "nart_ejec",
            "opas_prog", "opas_real", "opas_personas_prev", "opas_personas_conf",
            "dps_plan", "dps_real", "dps_previstos", "dps_asistentes",
            "ds_detectadas", "ds_eliminadas", "ent_programados", "ent_entrenados",
            "osea_aplicables", "osea_cumplidos", "cai_propuestas", "Cai Implement",
            "ef_totales", "ef_auditados", "anio">>

PTable(s, meses, columns) ==
    DataFrame(columns,
      [r \in 1..Len(meses) |->
         [c \in Range(columns) |->
            PCell(s, r - 1, NormalizarColumna(c), meses[r])]])

ProactiveInputs ==
    {PTable(s, Meses12, P_Canonicas) : s \in Patterns}
    \cup {PTable(1, m, P_Canonicas) :
            m \in {MesesDemo, MesesDesorden} \cup ListasParciales}
    \cup {PTable(2, m, P_Demo) : m \in {MesesDemo, MesesConTotal}}
    \cup {PTable(0, MesesSemestre, Sin(P_Canonicas, d)) :
            d \in {{"ef_totales"}, {"nart_prog", "cai_implement"},
                   {"mes", "opas_prog", "dps_real"}}}
    \cup {PTable(1, MesesSueltos, Sin(P_Demo, {" NART_Prog ", "Cai Implement"}))}

\* the targets a caller configures: none, 0, 50 and 100 per cent
MetaArgs == {None, Zero, Whole(50), Whole(100)}

---------------------------------------------------------------------------
(* procesar.  The steps of procesar that read nothing but the table are    *)
(* evaluated once for each input table and sort order.                     *)

\* ReactiveAnalyzer.procesar after the validation
ReporteDe(b, df) ==
    _insertar_resumenes(b, _calcular_indices_meses(_preparar_datos_base(b, df)))

\* ReactiveAnalyzer.procesar from the normalisation of the labels to
\* df_reporte: the exception raised, or the report
TablaReporte(b, df) ==
    LET Validada(d0) == IF _validar_columnas(d0) # None
                        THEN _validar_columnas(d0) ELSE ReporteDe(b, d0)
    IN Validada(RenameColumns(df))

TablasReporte ==
    [b \in Builds |-> [df \in ReactiveInputs |-> TablaReporte(b, df)]]

\* ConstantesK(MENSUAL=..., TRIMESTRAL=..., ANUAL=...)
ConstantesK(mensual, trimestral, anual) ==
    [MENSUAL |-> mensual, TRIMESTRAL |-> trimestral, ANUAL |-> anual]

\* ReactiveAnalyzer.__init__: the instance built.  constantes is the
\* attribute the application sets on the instance; None while it is unset
ReactiveAnalyzer ==
    [df_input |-> None, df_reporte |-> None, df_charts |-> None,
     constantes |-> None]

\* a faulty variant: a report already computed is handed out again
ReactiveAnalyzer_procesar_cached(self, b, df) ==
    LET fresh == TablasReporte[b][df]
        df_reporte == IF self.df_reporte # None THEN self.df_reporte ELSE fresh
        df_charts == SoloMeses(df_reporte)
    IN IF fresh.k = "exc" THEN [self |-> self, ret |-> fresh]
       ELSE [self |-> [self EXCEPT !.df_reporte = df_reporte,
                                   !.df_charts = df_charts],
             ret |-> [k |-> "ok", df_reporte |-> df_reporte,
                      df_charts |-> df_charts]]

\* a faulty variant: a call that raises drops the tables retained before
ReactiveAnalyzer_retornar_olvida(self, df_reporte) ==
    IF df_reporte.k = "exc"
    THEN [self |-> [self EXCEPT !.df_reporte = None, !.df_charts = None],
          ret |-> df_reporte]
    ELSE [self |-> [self EXCEPT !.df_reporte = df_reporte,
                                !.df_charts = SoloMeses(df_reporte)],
          ret |-> [k |-> "ok", df_reporte |-> df_reporte,
                   df_charts |-> SoloMeses(df_reporte)]]

\* the end of ReactiveAnalyzer.procesar, given the exception its steps raised
\* or the report they made: df_charts is taken, both tables are retained and
\* returned
ReactiveAnalyzer_retornar(self, df_reporte) ==
    IF df_reporte.k = "exc" THEN [self |-> self, ret |-> df_reporte]
    ELSE [self |-> [self EXCEPT !.df_reporte = df_reporte,
                                !.df_charts = SoloMeses(df_reporte)],
          ret |-> [k |-> "ok", df_reporte |-> df_reporte,
                   df_charts |-> SoloMeses(df_reporte)]]

\* ReactiveAnalyzer.procesar: the instance after the call, and the pair
\* returned or the exception raised
ReactiveAnalyzer_procesar(self, b, df) ==
    ReactiveAnalyzer_retornar(self, TablasReporte[b][df])

\* df['IG_TOTAL'] = df.apply(self._calcular_ig_total, axis=1)
ConIGTotal(df) ==
    WithColumn(df, "IG_TOTAL",
               [r \in 1..Len(df.rows) |-> _calcular_ig_total(df.rows[r])])

\* df['Meta'] = self.meta
ConMeta(meta, df) == WithColumn(df, "Meta", [r \in 1..Len(df.rows) |-> meta])

\* df['Estado'] = df['IG_TOTAL'].apply(...)
ConEstado(meta, df) ==
    WithColumn(df, "Estado",
      [r \in 1..Len(df.rows) |->
         IF PyGeq(df.rows[r]["IG_TOTAL"], meta)
         THEN Str("CUMPLE") ELSE Str("NO CUMPLE")])

\* ProactiveCalculator.procesar after the validation
IndicadoresDe(meta, b, df) ==
    ConEstado(meta, ConMeta(meta, ConIGTotal(
      ConIndicadores(_calcular_columnas_compuestas(_preparar_datos(b, df)), 1))))

\* ProactiveCalculator.procesar from the normalisation of the labels to the
\* Estado column, for a calculator whose target is `meta`: the exception
\* raised, or the table
TablaIndicadores(meta, b, df) ==
    LET Validada(d0) == IF P_validar_columnas(d0) # None
                        THEN P_validar_columnas(d0)
                        ELSE IndicadoresDe(meta, b, d0)
    IN Validada(RenameColumns(df))

TablasIndicadores ==
    [meta \in {ProactiveCalculator(m).meta : m \in MetaArgs} |->
       [b \in Builds |->
          [df \in ProactiveInputs |-> TablaIndicadores(meta, b, df)]]]

\* a faulty variant: the table of the call before is returned when there is one
ProactiveCalculator_procesar_cached(self, b, df) ==
    LET fresh == TablasIndicadores[self.meta][b][df]
        df_resultado == IF self.df_resultado # None THEN self.df_resultado
                        ELSE fresh
    IN IF fresh.k = "exc" THEN [self |-> self, ret |-> fresh]
       ELSE [self |-> [self EXCEPT !.df_resultado = df_resultado],
             ret |-> [k |-> "ok", df |-> df_resultado]]

\* the end of ProactiveCalculator.procesar, given the exception its steps
\* raised or the table they made, which is retained and returned
ProactiveCalculator_retornar(self, df_resultado) ==
    IF df_resultado.k = "exc" THEN [self |-> self, ret |-> df_resultado]
    ELSE [self |-> [self EXCEPT !.df_resultado = df_resultado],
          ret |-> [k |-> "ok", df |-> df_resultado]]

\* ProactiveCalculator.procesar: the instance after the call, and the table
\* returned or the exception raised
ProactiveCalculator_procesar(self, b, df) ==
    ProactiveCalculator_retornar(self, TablasIndicadores[self.meta][b][df])

\* the keys of the dict ProactiveCalculator.obtener_estadisticas returns
P_ClavesEstadisticas ==
    {"meta", "meses_cumplen", "meses_no_cumplen", "ig_total_promedio",
     "indicadores"}

\* ProactiveCalculator.obtener_estadisticas: the dict returned, {} before any
\* result
P_obtener_estadisticas(self) ==
    IF self.df_resultado = None THEN [clave \in {} |-> None]
    ELSE
      LET df == self.df_resultado
          Cumplen(col) == Cardinality({i \in 1..Len(df.rows) :
                                        PyGeq(df.rows[i][col], self.meta)})
          Menores(col) == Cardinality({i \in 1..Len(df.rows) :
                                        /\ IsNum(df.rows[i][col])
                                        /\ RatLt(df.rows[i][col], self.meta)})
          Extremo(col, mayor) ==
              CHOOSE v \in Range(Column(df.rows, col)) :
                \A w \in Range(Column(df.rows, col)) :
                  IF mayor THEN RatLeq(w, v) ELSE RatLeq(v, w)
          codigos == {INDICADORES[i].codigo : i \in 1..Len(INDICADORES)}
                       \cap Range(df.columns)
      IN [clave \in P_ClavesEstadisticas |->
            CASE clave = "meta" -> self.meta
              [] clave = "meses_cumplen" -> Whole(Cumplen("IG_TOTAL"))
              [] clave = "meses_no_cumplen" -> Whole(Menores("IG_TOTAL"))
              [] clave = "ig_total_promedio" ->
                   MeanCells(Column(df.rows, "IG_TOTAL"))
              [] clave = "indicadores" ->
                   [codigo \in codigos |->
                      [campo \in {"promedio", "minimo", "maximo", "cumple_meta"} |->
                         CASE campo = "promedio" ->
                                MeanCells(Column(df.rows, codigo))
                           [] campo = "minimo" -> Extremo(codigo, FALSE)
                           [] campo = "maximo" -> Extremo(codigo, TRUE)
                           [] campo = "cumple_meta" -> Whole(Cumplen(codigo))]]]

---------------------------------------------------------------------------
(* SafeArithmetic as called on its own                                     *)

MaxSD == 3

SDValues ==
    {Num(n, d) : n \in -MaxSD..MaxSD, d \in 1..2}
    \cup {Whole(10), NaN, PosInf, NegInf, None, Str("abc")}

SDImpls == {"ReactiveAnalyzer", "SSOCalculator"}

CallSafeDivide(impl, numerador, denominador) ==
    /\ sd' = [impl |-> impl, numerador |-> numerador,
              denominador |-> denominador,
              ret |-> IF impl = "ReactiveAnalyzer"
                      THEN _safe_divide(numerador, denominador)
                      ELSE SSOCalculator_safe_divide(numerador, denominador)]
    /\ UNCHANGED <<build, ra, r_call, pc, meta_arg, p_call, calls, dv, v_call,
                 d_call>>

----------------------------------------------------------------------------
(* DataValidator.  The tables it is given are held by position: columns    *)
(* is the sequence of labels, data[c] the cells of the c-th column and     *)
(* filas the number of rows, so that two columns may carry one label.      *)

REACTIVO == "reactivo"
PROACTIVO == "proactivo"
AMBOS == "ambos"
TipoAnalisis == {REACTIVO, PROACTIVO, AMBOS}

Tabla(columns, data, filas) ==
    [k |-> "tabla", columns |-> columns, data |-> data, filas |-> filas]

\* the keys of COLUMNAS_REACTIVO, in order
COLUMNAS_REACTIVO == <<"mes", "horas_trabajadas", "num_lesiones", "dias_perdidos">>

ALIAS_REACTIVO ==
    << [col_std |-> "mes",
        aliases |-> <<"mes", "month", "periodo", "fecha", "meses">>],
       [col_std |-> "horas_trabajadas",
        aliases |-> <<"horas_trabajadas", "horas", "horas_hombre", "hh",
                      "horas trabajadas", "total_horas", "h/h">>],
       [col_std |-> "num_lesiones",
        aliases |-> <<"num_lesiones", "lesiones", "accidentes",
                      "num_accidentes", "numero_lesiones",
                      "número de lesiones", "n_lesiones">>],
       [col_std |-> "dias_perdidos",
        aliases |-> <<"dias_perdidos", "dias", "días perdidos",
                      "días_perdidos", "dias_incapacidad",
                      "jornadas_perdidas", "d_perdidos">>] >>

ALIAS_PROACTIVO ==
    << [col_std |-> "mes",
        aliases |-> <<"mes", "month", "periodo", "fecha", "meses">>],
       [col_std |-> "iart_real",
        aliases |-> <<"iart_real", "iart real", "art_real", "iart_r">>],
       [col_std |-> "iart_programado",
        aliases |-> <<"iart_programado", "iart programado", "art_prog",
                      "iart_p">>],
       [col_std |-> "opas_real",
        aliases |-> <<"opas_real", "opas real", "opas_r">>],
       [col_std |-> "opas_programado",
        aliases |-> <<"opas_programado", "opas programado", "opas_p">>],
       [col_std |-> "idps_real",
        aliases |-> <<"idps_real", "idps real", "dps_real", "idps_r">>],
       [col_std |-> "idps_programado",
        aliases |-> <<"idps_programado", "idps programado", "dps_prog",
                      "idps_p">>],
       [col_std |-> "ids_real",
        aliases |-> <<"ids_real", "ids real", "ds_real", "ids_r">>],
       [col_std |-> "ids_programado",
        aliases |-> <<"ids_programado", "ids programado", "ds_prog",
                      "ids_p">>],
       [col_std |-> "ients_real",
        aliases |-> <<"ients_real", "ients real", "ents_real", "ients_r">>],
       [col_std |-> "ients_programado",
        aliases |-> <<"ients_programado", "ients programado", "ents_prog",
                      "ients_p">>],
       [col_std |-> "iosea_real",
        aliases |-> <<"iosea_real", "iosea real", "osea_real", "iosea_r">>],
       [col_std |-> "iosea_programado",
        aliases |-> <<"iosea_programado", "iosea programado", "osea_prog",
                      "iosea_p">>],
       [col_std |-> "icai_real",
        aliases |-> <<"icai_real", "icai real", "cai_real", "icai_r">>],
       [col_std |-> "icai_programado",
        aliases |-> <<"icai_programado", "icai programado", "cai_prog",
                      "icai_p">>] >>

\* DataValidator.__init__
DataValidator(tipo_analisis) == [tipo_analisis |-> tipo_analisis]

\* ValidationResult(es_valido=True)
ValidationResult ==
    [k |-> "resultado", es_valido |-> TRUE, errores |-> <<>>,
     warnings |-> <<>>, df_limpio |-> None, resumen |-> <<>>]

\* ValidationError(columna, mensaje, tipo): the message is held as its fixed
\* text and the items or the count formatted into it
ValidationError(columna, texto, items, tipo) ==
    [columna |-> columna, mensaje |-> [texto |-> texto, items |-> items],
     tipo |-> tipo]

\* ValidationResult.agregar_error
agregar_error(resultado, columna, texto, items) ==
    [resultado EXCEPT
       !.errores = Append(@, ValidationError(columna, texto, items, "error")),
       !.es_valido = FALSE]

\* ValidationResult.agregar_warning
agregar_warning(resultado, columna, texto, items) ==
    [resultado EXCEPT
       !.warnings = Append(@, ValidationError(columna, texto, items,
                                              "warning"))]

\* alias_map of _normalizar_columnas: dict.update keeps the place of a key
\* already there and takes the later value
alias_map(tipo) ==
    IF tipo = REACTIVO THEN ALIAS_REACTIVO
    ELSE IF tipo = PROACTIVO THEN ALIAS_PROACTIVO
    ELSE <<ALIAS_PROACTIVO[1]>> \o Tail(ALIAS_REACTIVO) \o Tail(ALIAS_PROACTIVO)

\* the first alias of the list that is a label of the table, "" if none
PrimerAlias(columns, aliases) ==
    LET Presente(alias) == NormalizarColumna(alias) \in Range(columns)
        presentes == SelectSeq(aliases, Presente)
    IN IF presentes = <<>> THEN "" ELSE NormalizarColumna(Head(presentes))

\* rename_map of _normalizar_columnas, as the entries of alias_map that
\* put a key into it
rename_entries(tipo, columns) ==
    LET Renombra(e) == /\ e.col_std \notin Range(columns)
                       /\ PrimerAlias(columns, e.aliases) # ""
    IN SelectSeq(alias_map(tipo), Renombra)

\* df.rename(columns=rename_map) of one label: the value of the last entry
\* that set the key
Renombrada(tipo, columns, col) ==
    LET entries == rename_entries(tipo, columns)
        hits == {i \in 1..Len(entries) :
                   PrimerAlias(columns, entries[i].aliases) = col}
    IN IF hits = {} THEN col
       ELSE entries[CHOOSE i \in hits : \A j \in hits : j <= i].col_std

\* a faulty variant: an alias is renamed whether or not the canonical column
\* is there
_normalizar_columnas_siempre(tipo, df) ==
    LET columns == [c \in 1..Len(df.columns) |->
                      NormalizarColumna(df.columns[c])]
        Hit(e) == PrimerAlias(columns, Tail(e.aliases)) # ""
        entries == SelectSeq(alias_map(tipo), Hit)
    IN Tabla([c \in 1..Len(columns) |->
                IF \E i \in 1..Len(entries) :
                     PrimerAlias(columns, Tail(entries[i].aliases)) = columns[c]
                THEN entries[CHOOSE i \in 1..Len(entries) :
                       PrimerAlias(columns, Tail(entries[i].aliases))
                         = columns[c]].col_std
                ELSE columns[c]],
             df.data, df.filas)

\* DataValidator._normalizar_columnas
_normalizar_columnas(tipo, df) ==
    LET columns == [c \in 1..Len(df.columns) |->
                      NormalizarColumna(df.columns[c])]
    IN Tabla([c \in 1..Len(columns) |-> Renombrada(tipo, columns, columns[c])],
             df.data, df.filas)

\* the places of the columns labelled col
Lugares(df, col) == {c \in 1..Len(df.columns) : df.columns[c] = col}

\* df[col] = cells, col being the label of one column
ConColumna(df, col, cells) ==
    Tabla(df.columns,
          [c \in 1..Len(df.columns) |->
             IF df.columns[c] = col THEN cells ELSE df.data[c]],
          df.filas)

\* df[col] of a label that one column carries
Serie(df, col) == df.data[CHOOSE c \in Lugares(df, col) : TRUE]

\* x < 0 of a float
PyLtZero(x) == (IsNum(x) /\ x.n < 0) \/ (x.k = "inf" /\ x.sgn < 0)

\* the number of cells of a column that satisfy the test of the given name
Cuenta(cells, que) ==
    Cardinality({r \in 1..Len(cells) :
                   CASE que = "isna" -> pd_isna(cells[r])
                     [] que = "negativo" -> PyLtZero(cells[r])
                     [] que = "cero" -> PyEqZero(cells[r])})

NumericasReactivo == <<"horas_trabajadas", "num_lesiones", "dias_perdidos">>

\* the first loop of _validar_reactivo over the columns from the i-th on:
\* df[col] = pd.to_numeric(df[col], errors='coerce'), a warning where values
\* became NaN.  pd.to_numeric raises TypeError when df[col] is a table, as it
\* is when two columns carry the label
RECURSIVE ReactivoNumericos(_, _, _)
ReactivoNumericos(df, resultado, i) ==
    IF i > Len(NumericasReactivo) THEN [k |-> "ok", df |-> df, resultado |-> resultado]
    ELSE IF Cardinality(Lugares(df, NumericasReactivo[i])) > 1
    THEN Raise("TypeError")
    ELSE ReactivoNumericos(
           ConColumna(df, NumericasReactivo[i],
                      [r \in 1..df.filas |->
                         to_numeric(Serie(df, NumericasReactivo[i])[r])]),
           IF Cuenta([r \in 1..df.filas |->
                        to_numeric(Serie(df, NumericasReactivo[i])[r])],
                     "isna") > 0
           THEN agregar_warning(resultado, NumericasReactivo[i],
                    "valores no numéricos convertidos a NaN",
                    <<Cuenta([r \in 1..df.filas |->
                                to_numeric(Serie(df, NumericasReactivo[i])[r])],
                             "isna")>>)
           ELSE resultado,
           i + 1)

\* the second loop of _validar_reactivo: an error for every column holding
\* negative values
RECURSIVE ReactivoNegativos(_, _, _)
ReactivoNegativos(df, resultado, i) ==
    IF i > Len(NumericasReactivo) THEN resultado
    ELSE ReactivoNegativos(df,
           IF Cuenta(Serie(df, NumericasReactivo[i]), "negativo") > 0
           THEN agregar_error(resultado, NumericasReactivo[i],
                    "valores negativos encontrados",
                    <<Cuenta(Serie(df, NumericasReactivo[i]), "negativo")>>)
           ELSE resultado,
           i + 1)

\* the end of _validar_reactivo: the warning of the months of 0 hours
ReactivoCeros(df, resultado) ==
    IF Cuenta(Serie(df, "horas_trabajadas"), "cero") > 0
    THEN agregar_warning(resultado, "horas_trabajadas",
             "meses con 0 horas trabajadas",
             <<Cuenta(Serie(df, "horas_trabajadas"), "cero")>>)
    ELSE resultado

\* _validar_reactivo once the columns are there; st is the outcome of the
\* first loop
ReactivoValores(st) ==
    IF IsExc(st) THEN st
    ELSE [k |-> "ok", df |-> st.df,
          resultado |-> ReactivoCeros(st.df,
                            ReactivoNegativos(st.df, st.resultado, 1))]

\* the required columns the table lacks, in the order of the list
Faltantes(df, requeridas) ==
    LET Falta(col) == col \notin Range(df.columns)
    IN SelectSeq(requeridas, Falta)

\* a faulty variant: one error for each missing column
_validar_reactivo_uno_por_columna(df, resultado) ==
    LET faltantes == Faltantes(df, COLUMNAS_REACTIVO)
    IN IF faltantes # <<>>
       THEN [k |-> "ok", df |-> df,
             resultado |->
               [resultado EXCEPT
                  !.es_valido = FALSE,
                  !.errores = @ \o
                     [i \in 1..Len(faltantes) |->
                        ValidationError("columnas",
                          "Columnas faltantes para análisis REACTIVO",
                          <<faltantes[i]>>, "error")]]]
       ELSE ReactivoValores(ReactivoNumericos(df, resultado, 1))

\* DataValidator._validar_reactivo: the table as the method leaves it and the
\* result, or the exception raised
_validar_reactivo(df, resultado) ==
    IF Faltantes(df, COLUMNAS_REACTIVO) # <<>>
    THEN [k |-> "ok", df |-> df,
          resultado |-> agregar_error(resultado, "columnas",
                            "Columnas faltantes para análisis REACTIVO",
                            Faltantes(df, COLUMNAS_REACTIVO))]
    ELSE ReactivoValores(ReactivoNumericos(df, resultado, 1))

columnas_minimas == <<"mes", "iart_real", "iart_programado">>
indicadores == <<"iart", "opas", "idps", "ids", "ients", "iosea", "icai">>

\* f"{ind}_real" and f"{ind}_programado"
col_real(ind) ==
    CASE ind = "iart" -> "iart_real" [] ind = "opas" -> "opas_real"
      [] ind = "idps" -> "idps_real" [] ind = "ids" -> "ids_real"
      [] ind = "ients" -> "ients_real" [] ind = "iosea" -> "iosea_real"
      [] ind = "icai" -> "icai_real"
col_prog(ind) ==
    CASE ind = "iart" -> "iart_programado" [] ind = "opas" -> "opas_programado"
      [] ind = "idps" -> "idps_programado" [] ind = "ids" -> "ids_programado"
      [] ind = "ients" -> "ients_programado"
      [] ind = "iosea" -> "iosea_programado"
      [] ind = "icai" -> "icai_programado"

\* df[col] = pd.to_numeric(df[col], errors='coerce').fillna(0) if col is a
\* label of the table
ProactivoNumerica(df, col) ==
    IF IsExc(df) \/ col \notin Range(df.columns) THEN df
    ELSE IF Cardinality(Lugares(df, col)) > 1 THEN Raise("TypeError")
    ELSE ConColumna(df, col,
           [r \in 1..df.filas |-> fillna0(to_numeric(Serie(df, col)[r]))])

\* the warning of the pair of one indicator, if one half of it is missing
ProactivoPar(df, resultado, ind) ==
    IF col_real(ind) \in Range(df.columns)
       /\ col_prog(ind) \notin Range(df.columns)
    THEN agregar_warning(resultado, col_prog(ind),
                         "Falta columna programada para", <<ind>>)
    ELSE IF col_prog(ind) \in Range(df.columns)
            /\ col_real(ind) \notin Range(df.columns)
    THEN agregar_warning(resultado, col_real(ind),
                         "Falta columna real para", <<ind>>)
    ELSE resultado

\* the loop of _validar_proactivo over the indicators from the i-th on
RECURSIVE ProactivoPares(_, _, _)
ProactivoPares(df, resultado, i) ==
    IF IsExc(df) THEN df
    ELSE IF i > Len(indicadores) THEN [k |-> "ok", df |-> df, resultado |-> resultado]
    ELSE ProactivoPares(
           ProactivoNumerica(ProactivoNumerica(df, col_real(indicadores[i])),
                             col_prog(indicadores[i])),
           ProactivoPar(df, resultado, indicadores[i]),
           i + 1)

\* DataValidator._validar_proactivo
_validar_proactivo(df, resultado) ==
    IF Faltantes(df, columnas_minimas) # <<>>
    THEN [k |-> "ok", df |-> df,
          resultado |-> agregar_error(resultado, "columnas",
                            "Columnas mínimas faltantes para análisis PROACTIVO",
                            Faltantes(df, columnas_minimas))]
    ELSE ProactivoPares(df, resultado, 1)

\* DataValidator._generar_resumen: the dict returned
_generar_resumen(tipo, df) ==
    LET claves == {c \in {"horas_trabajadas", "num_lesiones", "dias_perdidos"} :
                     tipo \in {REACTIVO, AMBOS} /\ c \in Range(df.columns)}
        Clave(c) == CASE c = "horas_trabajadas" -> "total_horas"
                      [] c = "num_lesiones" -> "total_lesiones"
                      [] c = "dias_perdidos" -> "total_dias_perdidos"
    IN [c \in {Clave(x) : x \in claves} |->
          SumCells(Serie(df, CHOOSE x \in claves : Clave(x) = c))]
       @@ [total_registros |-> Whole(df.filas), tipo_analisis |-> Str(tipo)]

\* the validation by kind in validar; for AMBOS the proactive one follows
\* only a reactive one that left the result valid
ValidarSegunTipo(tipo, st) ==
    IF tipo # AMBOS \/ IsExc(st) \/ ~st.resultado.es_valido THEN st
    ELSE _validar_proactivo(st.df, st.resultado)

\* the end of validar: the clean table and the summary of a valid result
Terminar(tipo, st) ==
    IF IsExc(st) THEN st
    ELSE IF st.resultado.es_valido
    THEN [st.resultado EXCEPT !.df_limpio = st.df,
                              !.resumen = _generar_resumen(tipo, st.df)]
    ELSE st.resultado

\* df is None or df.empty
Vacio(df) == df = None \/ Len(df.columns) = 0 \/ df.filas = 0

\* DataValidator.validar: the ValidationResult returned, or the exception
\* raised
validar(self, df) ==
    IF Vacio(df)
    THEN agregar_error(ValidationResult, "general",
                       "El DataFrame está vacío o es nulo", <<>>)
    ELSE Terminar(self.tipo_analisis,
           ValidarSegunTipo(self.tipo_analisis,
             IF self.tipo_analisis = PROACTIVO
             THEN _validar_proactivo(
                    _normalizar_columnas(self.tipo_analisis, df),
                    ValidationResult)
             ELSE _validar_reactivo(
                    _normalizar_columnas(self.tipo_analisis, df),
                    ValidationResult)))

---------------------------------------------------------------------------
(* The table of the caller.  procesar and validar receive a reference to   *)
(* the object the caller holds; an assignment to df.columns or to df[col]  *)
(* changes the object the name df is bound to at that point.               *)

\* the object of the caller, and the object DataFrame.copy() makes
Objetos == {"entrada", "copia"}

\* a faulty variant: no copy is made, the name stays bound to the object
df_copy_alias(obj) == obj

\* df.copy(): a new object with the labels and cells of obj
df_copy(obj) == "copia"

\* the table of the caller after ReactiveAnalyzer.procesar or
\* ProactiveCalculator.procesar: df = df.copy() binds df to the copy, and
\* df.columns = [...] writes the object df is bound to.  The steps after it
\* copy again or add columns to the tables they made, and _validar_columnas
\* raises after the labels were written
EntradaTrasProcesar(df) ==
    LET heap == [o \in Objetos |-> df]
        local == df_copy("entrada")
    IN [heap EXCEPT ![local] = RenameColumns(@)]["entrada"]

\* the table of the caller after DataValidator.validar: nothing is written
\* for an empty table; else _normalizar_columnas(df.copy()) writes the
\* labels of the object it received, and df.rename returns a new table, which
\* is the one the conversions are written to
EntradaTrasValidar(df) ==
    IF Vacio(df) THEN df
    ELSE LET heap == [o \in Objetos |-> df]
             local == df_copy("entrada")
         IN [heap EXCEPT ![local] =
               Tabla([c \in 1..Len(@.columns) |-> NormalizarColumna(@.columns[c])],
                     @.data, @.filas)]["entrada"]

----------------------------------------------------------------------------
(* The engines as a caller drives them, in sessions of at most MaxCalls    *)
(* procesar calls                                                          *)

MaxCalls == 2

\* ReactiveAnalyzer()
NewReactiveAnalyzer ==
    /\ ra' = ReactiveAnalyzer
    /\ r_call' = None
    /\ UNCHANGED <<sd, build, pc, meta_arg, p_call, calls, dv, v_call,
                 d_call>>

\* df_reporte, df_charts = reactive_analyzer.procesar(df) as the session
\* sees it: out is the analyzer after the call with what the call returned
\* or raised
LlamadaReactiva(df, out) ==
    /\ calls < MaxCalls
    /\ calls' = calls + 1
    /\ ra' = out.self
    /\ r_call' = [df |-> df, ret |-> out.ret,
                  after_report |-> ra.df_reporte # None,
                  entrada |-> EntradaTrasProcesar(df)]
    /\ UNCHANGED <<sd, build, pc, meta_arg, p_call, dv, v_call,
                 d_call>>

\* reactive_analyzer.procesar(df)
ReactiveProcesar(df) ==
    LlamadaReactiva(df, ReactiveAnalyzer_procesar(ra, build, df))

\* the constants the sidebar can hand over: its initial values, and values
\* the user typed
ConstantesConfigurables ==
    { ConstantesK(Num(1666667, 100), Whole(50000), Whole(200000)),
      ConstantesK(Whole(20000), Whole(60000), Whole(240000)) }

\* render_tab_reactivos, Procesar pressed: the configured constants are set
\* on the analyzer, then the edited table is processed
RenderTabReactivos(constantes_k, df) ==
    LlamadaReactiva(df,
        ReactiveAnalyzer_procesar([ra EXCEPT !.constantes = constantes_k],
                                  build, df))

\* the keys of the dict obtener_estadisticas returns
ClavesEstadisticas ==
    {"total_accidentes_baja", "total_accidentes_sin_baja",
     "total_enfermedades", "total_lesiones_anio", "total_dias_perdidos",
     "total_horas_anio", "if_promedio_mensual", "ig_promedio_mensual",
     "tr_promedio", "if_anual", "ig_anual", "meses_sin_accidentes"}

\* the column of the months a total or a mean of the statistics is taken of
ColumnaDeClave(clave) ==
    CASE clave = "total_accidentes_baja" -> "acc_baja"
      [] clave = "total_accidentes_sin_baja" -> "acc_sin_baja"
      [] clave = "total_enfermedades" -> "enf_ocupacionales"
      [] clave = "total_lesiones_anio" -> "total_lesiones"
      [] clave = "total_dias_perdidos" -> "dias_perdidos"
      [] clave = "total_horas_anio" -> "total_horas"
      [] clave = "if_promedio_mensual" -> "IF"
      [] clave = "ig_promedio_mensual" -> "IG"
      [] clave = "tr_promedio" -> "TR"

\* ReactiveAnalyzer.obtener_estadisticas: the dict returned, {} before any
\* report
obtener_estadisticas(self) ==
    IF self.df_reporte = None THEN [clave \in {} |-> None]
    ELSE
      LET df_meses == self.df_charts.rows
          EsAnual(row) == row["tipo_fila"] = Str("anual")
          df_anual == SelectSeq(self.df_reporte.rows, EsAnual)
      IN [clave \in ClavesEstadisticas |->
            CASE clave \in {"total_accidentes_baja",
                            "total_accidentes_sin_baja", "total_enfermedades",
                            "total_lesiones_anio", "total_dias_perdidos",
                            "total_horas_anio"} ->
                   SumCells(Column(df_meses, ColumnaDeClave(clave)))
              [] clave \in {"if_promedio_mensual", "ig_promedio_mensual",
                            "tr_promedio"} ->
                   MeanCells(Column(df_meses, ColumnaDeClave(clave)))
              [] clave = "if_anual" ->
                   IF Len(df_anual) > 0 THEN df_anual[1]["IF"] ELSE Zero
              [] clave = "ig_anual" ->
                   IF Len(df_anual) > 0 THEN df_anual[1]["IG"] ELSE Zero
              [] clave = "meses_sin_accidentes" ->
                   Whole(Cardinality({i \in 1..Len(df_meses) :
                             PyEqZero(df_meses[i]["total_lesiones"])}))]

\* self.df_reporte = df_reporte; self.df_charts = df_charts;
\* return df_reporte, df_charts: the attributes of the instance that are
\* bound to the very objects procesar returns
AtributosCompartidos == {"df_reporte", "df_charts"}

\* the columns a caller overwrites in a table it received, and the value
\* written
ColumnasEscritas == {"IF", "total_lesiones"}
ValorEscrito == Whole(999)

\* tabla[col] = 999.0 by the caller, on the df_reporte or the df_charts it
\* received from the last procesar: the object is changed in place, so every
\* name bound to it sees the change
CallerWrites(attr, col) ==
    /\ r_call # None
    /\ r_call.ret.k = "ok"
    /\ r_call.ret[attr].rows[1][col] # ValorEscrito
    /\ LET tabla == r_call.ret[attr]
           escrita == WithColumn(tabla, col,
                                 [r \in 1..Len(tabla.rows) |-> ValorEscrito])
       IN /\ r_call' = [r_call EXCEPT !.ret[attr] = escrita]
          /\ ra' = IF attr \in AtributosCompartidos
                   THEN [ra EXCEPT ![attr] = escrita]
                   ELSE ra
    /\ UNCHANGED <<sd, build, pc, meta_arg, p_call, calls, dv, v_call,
                 d_call>>

\* a faulty variant: proactive columns decide alone
detectar_tipo_datos_proactivo_primero(df) ==
    LET cols_lower == {NormalizarColumna(df.columns[c]) :
                         c \in 1..Len(df.columns)}
        tiene_proactivo ==
            {"iart_real", "iart_programado", "opas_real"} \cap cols_lower # {}
    IN IF tiene_proactivo THEN PROACTIVO ELSE REACTIVO

\* DataValidator.detectar_tipo_datos
detectar_tipo_datos(df) ==
    LET cols_lower == {NormalizarColumna(df.columns[c]) :
                         c \in 1..Len(df.columns)}
        tiene_reactivo ==
            {"horas_trabajadas", "horas", "num_lesiones", "lesiones"}
              \cap cols_lower # {}
        tiene_proactivo ==
            {"iart_real", "iart_programado", "opas_real"} \cap cols_lower # {}
    IN IF tiene_reactivo /\ tiene_proactivo THEN AMBOS
       ELSE IF tiene_proactivo THEN PROACTIVO
       ELSE REACTIVO

\* the tables handed to the validator: MaxVRows rows under each of the
\* headers, the cells of the c-th column being c + 1, c + 2, ... and the
\* months those of the calendar, with at most one cell of the first row
\* replaced by one of ValoresSueltos
MaxVRows == 2

Encabezados ==
    { <<"Mes", "horas_trabajadas", "num_lesiones", "dias_perdidos">>,
      <<"Mes", "Horas", "Lesiones", "Dias Perdidos">>,
      <<"Mes", "horas_trabajadas", "num_lesiones">>,
      <<"Mes", "Horas">>,
      <<"Mes", "horas_trabajadas", "Horas", "num_lesiones", "dias_perdidos">>,
      <<"Mes", "hh", "Horas", "num_lesiones", "dias_perdidos">>,
      <<"Mes", "Horas", "horas", "num_lesiones", "dias_perdidos">>,
      <<"Mes", "iart_real", "iart_programado", "opas_real", "opas_programado">>,
      <<"Mes", "iart_real", "iart_programado", "opas_real">>,
      <<"Mes", "IART_R", "iart_programado", "Opas Real">>,
      <<"Mes", "iart_real", "opas_real", "opas_programado">>,
      <<"Mes", "horas_trabajadas", "num_lesiones", "dias_perdidos",
        "iart_real", "iart_programado">>,
      <<"Mes", "Horas", "iart_real">>,
      <<"horas_trabajadas", "num_lesiones", "dias_perdidos">> }

ValoresSueltos == {Whole(-3), Zero, Str("abc"), Str("12"), NaN}

\* the table of the given header whose cell of the first row in column
\* `lugar` is `valor`; lugar 0 replaces no cell
TablaDe(encabezado, lugar, valor) ==
    Tabla(encabezado,
          [c \in 1..Len(encabezado) |->
             [r \in 1..MaxVRows |->
                IF c = lugar /\ r = 1 THEN valor
                ELSE IF NormalizarColumna(encabezado[c]) = "mes"
                THEN Str(MESES_ORDEN[((r - 1) % 12) + 1])
                ELSE Whole(c + r)]],
          MaxVRows)

ValidatorInputs ==
    {None, Tabla(<<>>, <<>>, 0), Tabla(<<"Mes", "Horas">>, <<<<>>, <<>>>>, 0)}
    \cup {TablaDe(e, 0, Zero) : e \in Encabezados}
    \cup UNION {{TablaDe(e, c, v) :
                   c \in {i \in 1..Len(e) : NormalizarColumna(e[i]) # "mes"},
                   v \in ValoresSueltos} : e \in Encabezados}

\* the tables whose kind is detected: those validated, and tables that carry
\* no signature column or only aliases of them
DetectarInputs ==
    (ValidatorInputs \ {None})
    \cup {TablaDe(e, 0, Zero) :
            e \in { <<"Mes", "dias_perdidos">>,
                    <<"Mes", "IART_R", "opas_programado">>,
                    <<"Mes", "hh", "Opas Real">>,
                    <<"Mes", "Lesiones", "iart_programado">> }}

\* DataValidator.detectar_tipo_datos(df)
DetectarTipoDatos(df) ==
    /\ d_call' = [df |-> df, ret |-> detectar_tipo_datos(df)]
    /\ UNCHANGED <<sd, build, ra, r_call, pc, meta_arg, p_call, calls, dv,
                   v_call>>

\* DataValidator(tipo_analisis)
NewDataValidator(tipo_analisis) ==
    /\ dv' = DataValidator(tipo_analisis)
    /\ v_call' = None
    /\ UNCHANGED <<sd, build, ra, r_call, pc, meta_arg, p_call, calls,
                 d_call>>

\* validator.validar(df), by a session that validates one table with each
\* validator it builds
Validar(df) ==
    /\ v_call = None
    /\ v_call' = [tipo |-> dv.tipo_analisis, df |-> df,
                  df_normalizado |->
                    IF Vacio(df) THEN None
                    ELSE _normalizar_columnas(dv.tipo_analisis, df),
                  ret |-> validar(dv, df),
                  entrada |-> EntradaTrasValidar(df)]
    /\ UNCHANGED <<sd, build, ra, r_call, pc, meta_arg, p_call, calls, dv,
                 d_call>>

\* ProactiveCalculator(meta)
NewProactiveCalculator(meta) ==
    /\ pc' = ProactiveCalculator(meta)
    /\ meta_arg' = meta
    /\ p_call' = None
    /\ UNCHANGED <<sd, build, ra, r_call, calls, dv, v_call,
                 d_call>>

\* proactive_calculator.procesar(df) as the session sees it: out is the
\* calculator after the call with what the call returned or raised
LlamadaProactiva(df, out) ==
    /\ calls < MaxCalls
    /\ calls' = calls + 1
    /\ pc' = out.self
    /\ p_call' = [df |-> df, ret |-> out.ret,
                  after_result |-> pc.df_resultado # None,
                  entrada |-> EntradaTrasProcesar(df)]
    /\ UNCHANGED <<sd, build, ra, r_call, meta_arg, dv, v_call,
                 d_call>>

\* proactive_calculator.procesar(df)
ProactiveProcesar(df) ==
    LlamadaProactiva(df, ProactiveCalculator_procesar(pc, build, df))

\* resultado.df_limpio as the engines receive it: the same table, its rows
\* read by label
ComoDataFrame(t) ==
    DataFrame(t.columns,
      [r \in 1..t.filas |->
         [c \in Range(t.columns) |-> Serie(t, c)[r]]])

\* a validation under the given kind accepted a table, whose labels differ
\* from one another
Validada(tipo) ==
    /\ v_call # None
    /\ v_call.tipo = tipo
    /\ v_call.ret.k = "resultado"
    /\ v_call.ret.es_valido
    /\ \A c \in Range(v_call.ret.df_limpio.columns) :
         Cardinality(Lugares(v_call.ret.df_limpio, c)) = 1

\* reactive_analyzer.procesar(resultado.df_limpio) after a validation under
\* REACTIVO accepted the table
ProcesarValidadaReactiva ==
    /\ Validada(REACTIVO)
    /\ LlamadaReactiva(ComoDataFrame(v_call.ret.df_limpio),
         ReactiveAnalyzer_retornar(ra,
           TablaReporte(build, ComoDataFrame(v_call.ret.df_limpio))))

\* proactive_calculator.procesar(resultado.df_limpio) after a validation
\* under PROACTIVO accepted the table
ProcesarValidadaProactiva ==
    /\ Validada(PROACTIVO)
    /\ LlamadaProactiva(ComoDataFrame(v_call.ret.df_limpio),
         ProactiveCalculator_retornar(pc,
           TablaIndicadores(pc.meta, build, ComoDataFrame(v_call.ret.df_limpio))))

Init ==
    /\ sd = None
    /\ build \in Builds
    /\ ra = ReactiveAnalyzer
    /\ r_call = None
    /\ pc = ProactiveCalculator(None)
    /\ meta_arg = None
    /\ p_call = None
    /\ calls = 0
    /\ dv = DataValidator(REACTIVO)
    /\ v_call = None
    /\ d_call = None

NextSafeDivide ==
    \E impl \in SDImpls, numerador \in SDValues, denominador \in SDValues :
        CallSafeDivide(impl, numerador, denominador)

NextReactive ==
    \/ NewReactiveAnalyzer
    \/ \E df \in ReactiveInputs : ReactiveProcesar(df)

NextProactive ==
    \/ \E meta \in MetaArgs : NewProactiveCalculator(meta)
    \/ \E df \in ProactiveInputs : ProactiveProcesar(df)

Next == NextReactive \/ NextProactive

\* the two engines of a session
Spec == Init /\ [][Next]_vars

\* a session that drives the reactive engine only
SpecReactive == Init /\ [][NextReactive]_vars

\* the reactive engine driven by the application as well as directly
NextReactiveApp ==
    \/ NextReactive
    \/ \E constantes_k \in ConstantesConfigurables, df \in ReactiveInputs :
          RenderTabReactivos(constantes_k, df)

SpecReactiveApp == Init /\ [][NextReactiveApp]_vars

\* the reactive engine and a caller that writes into the tables it received
NextReactiveCaller ==
    \/ NextReactive
    \/ \E attr \in {"df_reporte", "df_charts"}, col \in ColumnasEscritas :
          CallerWrites(attr, col)

SpecReactiveCaller == Init /\ [][NextReactiveCaller]_vars

\* a caller of the validator
NextValidator ==
    \/ \E tipo_analisis \in TipoAnalisis : NewDataValidator(tipo_analisis)
    \/ \E df \in ValidatorInputs : Validar(df)

SpecValidator == Init /\ [][NextValidator]_vars

\* a session that either validates a table or has the engines process
\* tables
NextSesion ==
    \/ v_call = None /\ NextReactive
    \/ v_call = None /\ NextProactive
    \/ calls = 0 /\ NextValidator

SpecSesion == Init /\ [][NextSesion]_vars

\* a session that validates a table and hands the accepted table to the
\* engine of the kind
NextValidada ==
    \/ calls = 0 /\ NextValidator
    \/ ProcesarValidadaReactiva
    \/ ProcesarValidadaProactiva

SpecValidada == Init /\ [][NextValidada]_vars

\* a caller of the kind detection
NextDetectar == \E df \in DetectarInputs : DetectarTipoDatos(df)

SpecDetectar == Init /\ [][NextDetectar]_vars

\* a session that drives the proactive engine only
SpecProactive == Init /\ [][NextProactive]_vars

\* the division primitive on its own
SpecSafeDivide == Init /\ [][NextSafeDivide]_vars

---------------------------------------------------------------------------
(* Properties                                                              *)

\* the quotient n / d of two rationals, d not zero
Quotient(n, d) == Num(n.n * d.d, n.d * d.n)
\* the product of two rationals
Product(x, y) == Num(x.n * y.n, x.d * y.d)
\* the sum of three rationals
Sum3(x, y, z) ==
    Num(x.n * y.d * z.d + y.n * x.d * z.d + z.n * x.d * y.d, x.d * y.d * z.d)
\* what a safe division of rationals is to give
SafeQuotient(n, d) == IF d.n = 0 THEN Zero ELSE Quotient(n, d)

\* C1: safeDivide returns 0.0 when the denominator is zero, missing or NaN,
\* or when the quotient is NaN or infinite, whatever the numerator; it never
\* raises; for every other input it returns numerator / denominator.
C1_SafeDivideContract ==
    sd # None =>
      LET n == sd.numerador
          d == sd.denominador
      IN /\ ~IsExc(sd.ret)
         /\ IsNum(sd.ret)
         /\ (d = Zero \/ d = None \/ d = NaN) => sd.ret = Zero
         /\ (IsFloat(d) /\ n.k \in {"nan", "inf"}) => sd.ret = Zero
         /\ (IsNum(n) /\ d.k = "inf") => sd.ret = Zero
         /\ (IsNum(n) /\ IsNum(d) /\ d # Zero) => sd.ret = Quotient(n, d)

\* safeDivide(10, 0) has been called, and a proper quotient has been taken
C1_Witness ==
    /\ sd # None
    /\ sd.numerador = Whole(10)
    /\ sd.denominador = Zero
    /\ sd.ret = Zero

\* the report of the last reactive call, when it succeeded
ROk == r_call # None /\ r_call.ret.k = "ok"
Reporte == r_call.ret.df_reporte

FilasDeTipo(df, tipo) ==
    LET Es(row) == row["tipo_fila"] = Str(tipo) IN SelectSeq(df.rows, Es)

\* the Month rows of a report that belong to quarter t
MesesDelTrimestre(df, t) ==
    LET Es(row) == row["tipo_fila"] = Str("mes")
                   /\ row["mes"].s \in TRIMESTRES[t].meses
    IN SelectSeq(df.rows, Es)

\* the Quarter rows of a report for quarter t
FilasTrimestre(df, t) ==
    LET Es(row) == row["tipo_fila"] = Str("trimestre")
                   /\ row["mes"] = Str(TRIMESTRES[t].nombre)
    IN SelectSeq(df.rows, Es)

\* the input holds exactly one record for each of the 12 calendar months
Entrada12(df) ==
    LET col == CHOOSE c \in Range(df.columns) : NormalizarColumna(c) = "mes"
        nombre(r) == StrStrip(StrLower(df.rows[r][col].s))
    IN /\ Len(df.rows) = 12
       /\ \E c \in Range(df.columns) : NormalizarColumna(c) = "mes"
       /\ \A i \in 1..12 :
            Cardinality({r \in 1..12 : nombre(r) = MESES_ORDEN[i]}) = 1

\* C2: for a valid 12-month input, each Quarter row carries injury, lost-day
\* and hour totals equal to the sums over the quarter's 3 Month rows.
C2_QuarterTotalsAreSums ==
    (ROk /\ Entrada12(r_call.df)) =>
      \A t \in 1..4 :
        LET q == FilasTrimestre(Reporte, t)
            m == MesesDelTrimestre(Reporte, t)
            Suma(col) == Sum3(m[1][col], m[2][col], m[3][col])
        IN /\ Len(q) = 1
           /\ Len(m) = 3
           /\ q[1]["total_lesiones"] = Suma("total_lesiones")
           /\ q[1]["dias_perdidos"] = Suma("dias_perdidos")
           /\ q[1]["total_horas"] = Suma("total_horas")

\* a 12-month report whose first quarter sums three different injury counts
C2_Witness ==
    /\ ROk
    /\ Entrada12(r_call.df)
    /\ LET m == MesesDelTrimestre(Reporte, 1)
       IN /\ Len(m) = 3
          /\ Cardinality({m[i]["total_lesiones"] : i \in 1..3}) = 3
          /\ Cardinality({m[i]["total_horas"] : i \in 1..3}) >= 2
          /\ FilasTrimestre(Reporte, 1)[1]["dias_perdidos"].n > 0

\* the constant K a summary row of the given kind is to be computed with
KDelTipo(tipo) == IF tipo = Str("trimestre") THEN Whole(50000) ELSE Whole(200000)

\* the Year row of a report
FilaAnual(df) == FilasDeTipo(df, "anual")[1]

\* C3: every summary row is recomputed from its summed raw counts:
\* IF = safeDivide(injuries * K, hours) and IG = safeDivide(lostDays * K,
\* hours), K = 200000 for the Year row and 50000 for a Quarter row, the Year
\* row's counts being the sums over the 12 months; so two inputs with the
\* same year totals have the same Year-row IF and IG, whatever the months'
\* own indices are.
C3_SummaryRecomputedFromTotals ==
    ROk =>
      /\ \A i \in 1..Len(Reporte.rows) :
           LET row == Reporte.rows[i]
               k == KDelTipo(row["tipo_fila"])
           IN row["tipo_fila"] \in {Str("trimestre"), Str("anual")} =>
                /\ row["IF"] = SafeQuotient(Product(row["total_lesiones"], k),
                                            row["total_horas"])
                /\ row["IG"] = SafeQuotient(Product(row["dias_perdidos"], k),
                                            row["total_horas"])
                /\ row["constante_k"] = k
      /\ Len(FilasDeTipo(Reporte, "anual")) = 1
      /\ Entrada12(r_call.df) =>
           \A col \in {"total_lesiones", "dias_perdidos", "total_horas"} :
             FilaAnual(Reporte)[col]
               = SumCells(Column(FilasDeTipo(Reporte, "mes"), col))
      /\ \A df2 \in ReactiveInputs :
           LET otro == TablasReporte[build][df2]
           IN (/\ otro.k = "df"
               /\ \A col \in {"total_lesiones", "dias_perdidos", "total_horas"} :
                    FilaAnual(otro)[col] = FilaAnual(Reporte)[col])
              => /\ FilaAnual(otro)["IF"] = FilaAnual(Reporte)["IF"]
                 /\ FilaAnual(otro)["IG"] = FilaAnual(Reporte)["IG"]

\* a 12-month report whose Year row has a positive IF, while another input
\* with the same year totals has a different January index
C3_Witness ==
    /\ ROk
    /\ Entrada12(r_call.df)
    /\ FilaAnual(Reporte)["IF"].n > 0
    /\ \E df2 \in ReactiveInputs :
         LET otro == TablasReporte[build][df2]
         IN /\ otro.k = "df"
            /\ \A col \in {"total_lesiones", "dias_perdidos", "total_horas"} :
                 FilaAnual(otro)[col] = FilaAnual(Reporte)[col]
            /\ \E i \in 1..Len(otro.rows), j \in 1..Len(Reporte.rows) :
                 /\ otro.rows[i]["mes"] = Str("enero")
                 /\ Reporte.rows[j]["mes"] = Str("enero")
                 /\ otro.rows[i]["IF"] # Reporte.rows[j]["IF"]

\* C4: every Month row has IF = safeDivide(injuries * 16666.67, hours),
\* IG = safeDivide(lostDays * 16666.67, hours), TR = safeDivide(lostDays,
\* injuries), injuries = accidents with leave + accidents without leave +
\* illnesses; with no injuries TR = 0, with no hours IF = IG = 0; Scenario A
\* (2 injuries, 10 lost days, 16000 hours) gives 2.083, 10.417 and 5.0.
C4_MonthIndices ==
    ROk =>
      /\ \A i \in 1..Len(Reporte.rows) :
           LET row == Reporte.rows[i]
               lesiones == Sum3(row["acc_baja"], row["acc_sin_baja"],
                                row["enf_ocupacionales"])
               k == Num(1666667, 100)
           IN row["tipo_fila"] = Str("mes") =>
                /\ row["total_lesiones"] = lesiones
                /\ row["IF"] = SafeQuotient(Product(lesiones, k),
                                            row["total_horas"])
                /\ row["IG"] = SafeQuotient(Product(row["dias_perdidos"], k),
                                            row["total_horas"])
                /\ row["TR"] = SafeQuotient(row["dias_perdidos"], lesiones)
                /\ row["constante_k"] = k
                /\ lesiones = Zero => row["TR"] = Zero
                /\ row["total_horas"] = Zero =>
                     (row["IF"] = Zero /\ row["IG"] = Zero)
      /\ r_call.df = EscenarioA =>
           LET row == FilasDeTipo(Reporte, "mes")[1]
           IN /\ Round3(row["IF"]) = 2083
              /\ Round3(row["IG"]) = 10417
              /\ row["TR"] = Whole(5)

\* Scenario A has been processed
C4_Witness ==
    /\ ROk
    /\ r_call.df = EscenarioA
    /\ Len(FilasDeTipo(Reporte, "mes")) = 1
    /\ FilasDeTipo(Reporte, "mes")[1]["total_lesiones"] = Whole(2)

\* a Month row with lost days and no injuries
C4_WitnessSinLesiones ==
    /\ ROk
    /\ \E i \in 1..Len(Reporte.rows) :
         /\ Reporte.rows[i]["tipo_fila"] = Str("mes")
         /\ Reporte.rows[i]["total_lesiones"] = Zero
         /\ Reporte.rows[i]["dias_perdidos"] # Zero

\* a Month row with injuries and lost days and no hours at all
C4_WitnessSinHoras ==
    /\ ROk
    /\ \E j \in 1..Len(Reporte.rows) :
         /\ Reporte.rows[j]["tipo_fila"] = Str("mes")
         /\ Reporte.rows[j]["total_horas"] = Zero
         /\ Reporte.rows[j]["total_lesiones"] # Zero
         /\ Reporte.rows[j]["dias_perdidos"] # Zero

\* the table a successful ProactiveCalculator.procesar returned
POk == p_call # None /\ p_call.ret.k = "ok"
Indicadores == p_call.ret.df

\* executed / planned * 100, on exact rationals with planned # 0
Porcentaje(e, p) == RatMul(RatDiv(e, p), Whole(100))

\* <<indicator, executed field, planned field>> of the simple families
Simples ==
    {<<"IART", "nart_ejec", "nart_prog">>, <<"IDS", "ds_eliminadas", "ds_detectadas">>,
     <<"IENTS", "ent_entrenados", "ent_programados">>,
     <<"IOSEA", "osea_cumplidos", "osea_aplicables">>,
     <<"ICAI", "cai_implement", "cai_propuestas">>,
     <<"IEF", "ef_auditados", "ef_totales">>}

Compuestas ==
    {<<"OPAS", "opas_real", "opas_personas_conf", "opas_prog",
       "opas_personas_prev">>,
     <<"IDPS", "dps_real", "dps_asistentes", "dps_plan", "dps_previstos">>}

Ponderados == {"IART", "OPAS", "IDPS", "IDS", "IENTS", "IOSEA", "ICAI"}

\* (5 IART + 3 OPAS + 2 IDPS + 3 IDS + IENTS + 4 IOSEA + 4 ICAI) / 22 with the
\* indicators outside `presentes` counted as 0
Sobre22(row, presentes) ==
    LET V(c) == IF c \in presentes THEN row[c] ELSE Zero
        T(w, c) == RatMul(Whole(w), V(c))
    IN RatDiv(RatAdd(RatAdd(RatAdd(RatAdd(RatAdd(RatAdd(
         T(5, "IART"), T(3, "OPAS")), T(2, "IDPS")), T(3, "IDS")),
         T(1, "IENTS")), T(4, "IOSEA")), T(4, "ICAI")), Whole(22))

\* the row without the entries of the labels in `drop`
SinEntradas(row, drop) == [c \in (DOMAIN row) \ drop |-> row[c]]

\* C7: IG_TOTAL of every processed row is
\* (5 IART + 3 OPAS + 2 IDPS + 3 IDS + IENTS + 4 IOSEA + 4 ICAI) / 22, and
\* for the row without one, two or all of its weighted indicators the
\* weighted sum of the rest is still divided by 22.
C7_WeightedTotalOver22 ==
    POk =>
      \A i \in 1..Len(Indicadores.rows) :
        LET row == Indicadores.rows[i]
        IN /\ row["IG_TOTAL"] = Sobre22(row, Ponderados)
           /\ row["IG_TOTAL"]
                = calcular_ig_total(row["IART"], row["OPAS"], row["IDPS"],
                                    row["IDS"], row["IENTS"], row["IOSEA"],
                                    row["ICAI"])
           /\ \A drop \in {{c} : c \in Ponderados \cup {"IEF"}}
                            \cup {Ponderados, {"IART", "ICAI"}} :
                _calcular_ig_total(SinEntradas(row, drop))
                  = Sobre22(row, Ponderados \ drop)

\* a processed row whose IENTS is positive, so that the total without it is
\* smaller, and whose indicators are not all equal
C7_Witness ==
    /\ POk
    /\ \E i \in 1..Len(Indicadores.rows) :
         LET row == Indicadores.rows[i]
         IN /\ row["IENTS"].n > 0
            /\ row["IENTS"] # row["ICAI"]
            /\ row["IG_TOTAL"].n > 0
            /\ _calcular_ig_total(SinEntradas(row, {"IENTS"})) # row["IG_TOTAL"]

\* the target the caller configured: the one supplied, 80 when none was
ConfiguredTarget == IF meta_arg = None THEN Whole(80) ELSE meta_arg

\* C8: every row of a processed table carries the target the caller
\* configured (80 when none was supplied, the supplied one otherwise, 0
\* included) and is CUMPLE exactly when its IG_TOTAL is at least that target,
\* NO CUMPLE otherwise.
C8_StatusAgainstConfiguredTarget ==
    POk =>
      \A i \in 1..Len(Indicadores.rows) :
        LET row == Indicadores.rows[i]
        IN /\ row["Meta"] = ConfiguredTarget
           /\ row["Estado"] \in {Str("CUMPLE"), Str("NO CUMPLE")}
           /\ row["Estado"] = Str("CUMPLE")
                <=> RatLeq(ConfiguredTarget, row["IG_TOTAL"])

\* what the rows carry instead: the target the instance holds, which is the
\* supplied one unless that is none or 0
C8_StatusAgainstHeldTarget ==
    POk =>
      /\ pc.meta = (IF meta_arg \in {None, Zero} THEN Whole(80) ELSE meta_arg)
      /\ \A i \in 1..Len(Indicadores.rows) :
           LET row == Indicadores.rows[i]
           IN /\ row["Meta"] = pc.meta
              /\ row["Estado"] \in {Str("CUMPLE"), Str("NO CUMPLE")}
              /\ row["Estado"] = Str("CUMPLE")
                   <=> RatLeq(pc.meta, row["IG_TOTAL"])

\* a calculator configured with target 0 has processed a row below 80
C8_WitnessZeroTarget ==
    /\ POk
    /\ meta_arg = Zero
    /\ \E i \in 1..Len(Indicadores.rows) :
         /\ RatLt(Indicadores.rows[i]["IG_TOTAL"], Whole(80))
         /\ Indicadores.rows[i]["Estado"] = Str("NO CUMPLE")
         /\ Indicadores.rows[i]["Meta"] = Whole(80)

C9_WitnessProactive ==
    /\ POk /\ p_call.after_result
    /\ pc.df_resultado = Indicadores

\* the required fields the table lacks once its labels are normalised
Missing(df, required) ==
    Range(required) \ {NormalizarColumna(c) : c \in Range(df.columns)}

\* the call ended in a ValueError naming exactly the fields of `missing`
SchemaError(ret, missing) ==
    /\ ret.k = "exc"
    /\ ret.e = "ValueError"
    /\ Range(ret.faltantes) = missing

\* C10: a procesar call on a table lacking required fields raises the schema
\* error (a ValueError) naming every missing required field and returns no
\* table; a call on a table lacking none raises no such error.
C10_SchemaErrorNamesAllMissing ==
    /\ r_call # None =>
         LET missing == Missing(r_call.df, COLUMNAS_REQUERIDAS)
         IN IF missing # {} THEN SchemaError(r_call.ret, missing)
            ELSE r_call.ret.k = "ok"
    /\ p_call # None =>
         LET missing == Missing(p_call.df, P_COLUMNAS_REQUERIDAS)
         IN IF missing # {} THEN SchemaError(p_call.ret, missing)
            ELSE p_call.ret.k = "ok"

\* both engines have refused a table lacking several required fields
C10_Witness ==
    /\ r_call # None /\ r_call.ret.k = "exc" /\ Len(r_call.ret.faltantes) >= 2
    /\ p_call # None /\ p_call.ret.k = "exc" /\ Len(p_call.ret.faltantes) >= 2

\* the label of the input's month column, and the month of its r-th record
\* as the engine reads it
MesCol(df) == CHOOSE c \in Range(df.columns) : NormalizarColumna(c) = "mes"
NombreMes(df, r) == StrLowerStrip(df.rows[r][MesCol(df)])

\* the cell is one of the 12 calendar names
EsDelCalendario(x) == x.k = "str" /\ x.s \in Range(MESES_ORDEN)

\* the positions of the report's Month rows of month x
MesesDe(df, x) ==
    {i \in 1..Len(df.rows) :
       df.rows[i]["tipo_fila"] = Str("mes") /\ df.rows[i]["mes"] = x}

\* the input records of month x
RegistrosDe(df, x) == {r \in 1..Len(df.rows) : NombreMes(df, r) = x}

\* C11: every record of the input is exactly one Month row of the report; a
\* record whose month is not a calendar name is kept too, with rank 99,
\* after every row of a calendar month.
C11_EveryRecordIsOneMonthRow ==
    ROk =>
      /\ Len(FilasDeTipo(Reporte, "mes")) = Len(r_call.df.rows)
      /\ \A r \in 1..Len(r_call.df.rows) :
           Cardinality(MesesDe(Reporte, NombreMes(r_call.df, r)))
             = Cardinality(RegistrosDe(r_call.df, NombreMes(r_call.df, r)))
      /\ \A i \in 1..Len(Reporte.rows) :
           (/\ Reporte.rows[i]["tipo_fila"] = Str("mes")
            /\ ~EsDelCalendario(Reporte.rows[i]["mes"])) =>
             /\ Reporte.rows[i]["mes_orden"] = Whole(99)
             /\ \A j \in 1..Len(Reporte.rows) :
                  EsDelCalendario(Reporte.rows[j]["mes"]) => j < i

\* what the report does hold: one Month row for every record of a calendar
\* month, and no Month row of any other month
C11_CalendarRecordsKept ==
    ROk =>
      /\ \A r \in 1..Len(r_call.df.rows) :
           Cardinality(MesesDe(Reporte, NombreMes(r_call.df, r)))
             = IF EsDelCalendario(NombreMes(r_call.df, r))
               THEN Cardinality(RegistrosDe(r_call.df, NombreMes(r_call.df, r)))
               ELSE 0
      /\ \A i \in 1..Len(Reporte.rows) :
           Reporte.rows[i]["tipo_fila"] = Str("mes") =>
             EsDelCalendario(Reporte.rows[i]["mes"])

\* a table with a record of month "total" has been processed, and the report
\* has no row for it
C11_WitnessRecordDropped ==
    /\ ROk
    /\ \E r \in 1..Len(r_call.df.rows) :
         /\ NombreMes(r_call.df, r) = Str("total")
         /\ MesesDe(Reporte, Str("total")) = {}
    /\ Len(FilasDeTipo(Reporte, "mes")) < Len(r_call.df.rows)

\* C12: whatever months the accepted input holds, the report has exactly 4
\* Quarter rows, one per quarter, and exactly 1 Year row.
C12_FourQuarterRowsOneYearRow ==
    ROk =>
      /\ Len(FilasDeTipo(Reporte, "trimestre")) = 4
      /\ \A t \in 1..4 : Len(FilasTrimestre(Reporte, t)) = 1
      /\ Len(FilasDeTipo(Reporte, "anual")) = 1

\* what the report does hold: the Quarter row of a quarter exactly when the
\* input has a record of one of its months, and 1 Year row
C12_QuarterRowIffMonths ==
    ROk =>
      /\ \A t \in 1..4 :
           Len(FilasTrimestre(Reporte, t))
             = IF \E r \in 1..Len(r_call.df.rows) :
                    /\ NombreMes(r_call.df, r).k = "str"
                    /\ NombreMes(r_call.df, r).s \in TRIMESTRES[t].meses
               THEN 1 ELSE 0
      /\ Len(FilasDeTipo(Reporte, "trimestre"))
           = Len(FilasTrimestre(Reporte, 1)) + Len(FilasTrimestre(Reporte, 2))
             + Len(FilasTrimestre(Reporte, 3)) + Len(FilasTrimestre(Reporte, 4))
      /\ Len(FilasDeTipo(Reporte, "anual")) = 1

\* a table with the months of the first semester only has been processed,
\* and the report has 2 Quarter rows
C12_WitnessSemestre ==
    /\ ROk
    /\ Len(r_call.df.rows) = 6
    /\ \A r \in 1..6 : NombreMes(r_call.df, r) = Str(MESES_ORDEN[r])
    /\ Len(FilasDeTipo(Reporte, "trimestre")) = 2
    /\ FilasTrimestre(Reporte, 3) = <<>>

\* the quarter (1..4) a Month or Quarter row of a report belongs to, 0 for
\* any other row
TrimestreDe(row) ==
    IF \E t \in 1..4 : row["mes"] = Str(TRIMESTRES[t].nombre)
                       \/ (row["mes"].k = "str"
                           /\ row["mes"].s \in TRIMESTRES[t].meses)
    THEN CHOOSE t \in 1..4 : row["mes"] = Str(TRIMESTRES[t].nombre)
                             \/ (row["mes"].k = "str"
                                 /\ row["mes"].s \in TRIMESTRES[t].meses)
    ELSE 0

EsFila(df, i, tipo) == df.rows[i]["tipo_fila"] = Str(tipo)

\* C13: in the report every Month row of a quarter precedes that quarter's
\* row, every Quarter row precedes the Month rows of later quarters, the
\* Year row follows every Quarter row, and no Quarter row has the rank of a
\* Month row.
C13_RowsOrderedByPeriod ==
    ROk =>
      \A i, j \in 1..Len(Reporte.rows) :
        /\ (/\ EsFila(Reporte, i, "mes") /\ EsFila(Reporte, j, "trimestre")
            /\ TrimestreDe(Reporte.rows[i]) = TrimestreDe(Reporte.rows[j]))
             => i < j
        /\ (/\ EsFila(Reporte, i, "trimestre") /\ EsFila(Reporte, j, "mes")
            /\ TrimestreDe(Reporte.rows[i]) < TrimestreDe(Reporte.rows[j]))
             => i < j
        /\ (EsFila(Reporte, i, "trimestre") /\ EsFila(Reporte, j, "anual"))
             => i < j
        /\ (EsFila(Reporte, i, "trimestre") /\ EsFila(Reporte, j, "mes"))
             => Reporte.rows[i]["mes_orden"] # Reporte.rows[j]["mes_orden"]

\* what the report does hold: ranks never decrease, a month has its index
\* (0..11) as rank, quarter t has rank 3 t and the Year row 99; so the Month
\* rows of a quarter precede its row and the Year row is last
C13_RanksNeverDecrease ==
    ROk =>
      /\ \A i, j \in 1..Len(Reporte.rows) :
           /\ i < j => Reporte.rows[i]["mes_orden"].n <= Reporte.rows[j]["mes_orden"].n
           /\ (/\ EsFila(Reporte, i, "mes") /\ EsFila(Reporte, j, "trimestre")
               /\ TrimestreDe(Reporte.rows[i]) = TrimestreDe(Reporte.rows[j]))
                => i < j
           /\ EsFila(Reporte, j, "anual") => i <= j
      /\ \A i \in 1..Len(Reporte.rows) :
           Reporte.rows[i]["mes_orden"] =
             Whole(CASE EsFila(Reporte, i, "mes") ->
                          MesOrden(Reporte.rows[i]["mes"])
                     [] EsFila(Reporte, i, "trimestre") ->
                          3 * TrimestreDe(Reporte.rows[i])
                     [] OTHER -> 99)

\* a report in which PRIMER TRIMESTRE and abril both have rank 3
C13_WitnessEqualRank ==
    /\ ROk
    /\ \E i, j \in 1..Len(Reporte.rows) :
         /\ Reporte.rows[i]["mes"] = Str("PRIMER TRIMESTRE")
         /\ Reporte.rows[j]["mes"] = Str("abril")
         /\ Reporte.rows[i]["mes_orden"] = Whole(3)
         /\ Reporte.rows[j]["mes_orden"] = Whole(3)

\* a report in which abril comes before PRIMER TRIMESTRE
C13_WitnessAbrilFirst ==
    /\ ROk
    /\ \E i, j \in 1..Len(Reporte.rows) :
         /\ Reporte.rows[i]["mes"] = Str("PRIMER TRIMESTRE")
         /\ Reporte.rows[j]["mes"] = Str("abril")
         /\ j < i

\* the chart table a successful ReactiveAnalyzer.procesar returned
Charts == r_call.ret.df_charts

\* C14: the chart table holds exactly the Month rows of the report, in the
\* report's order, which is the calendar's: the month rank never decreases.
C14_ChartIsMonthRows ==
    ROk =>
      /\ Charts.columns = Reporte.columns
      /\ Charts.rows = FilasDeTipo(Reporte, "mes")
      /\ \A i \in 1..Len(Charts.rows) : Charts.rows[i]["tipo_fila"] = Str("mes")
      /\ \A i, j \in 1..Len(Charts.rows) :
           i < j => MesOrden(Charts.rows[i]["mes"]) <= MesOrden(Charts.rows[j]["mes"])

\* a 12-month table given out of calendar order has been processed: the
\* report has 17 rows and the chart table the 12 months from enero on
C14_Witness ==
    /\ ROk
    /\ Len(r_call.df.rows) = 12
    /\ NombreMes(r_call.df, 1) = Str("diciembre")
    /\ Len(Reporte.rows) = 17
    /\ Len(Charts.rows) = 12
    /\ Charts.rows[1]["mes"] = Str("enero")
    /\ Charts.rows[12]["mes"] = Str("diciembre")

\* C15 (as stated): the constants configured by the caller are the ones the
\* report is computed with and records, Month rows with the monthly one,
\* Quarter rows with the quarterly one and the Year row with the yearly one;
\* with none configured the defaults 16,666.67, 50,000 and 200,000 are used
ConstantesEnUso == IF ra.constantes = None THEN K ELSE ra.constantes

KConfiguradaDelTipo(tipo) ==
    IF tipo = Str("mes") THEN ConstantesEnUso.MENSUAL
    ELSE IF tipo = Str("trimestre") THEN ConstantesEnUso.TRIMESTRAL
    ELSE ConstantesEnUso.ANUAL

C15_ConfiguredConstantsUsed ==
    ROk =>
        \A i \in 1..Len(Reporte.rows) :
            LET row == Reporte.rows[i]
                k == KConfiguradaDelTipo(row["tipo_fila"])
            IN /\ row["constante_k"] = k
               /\ row["IF"] = SafeQuotient(Product(row["total_lesiones"], k),
                                           row["total_horas"])
               /\ row["IG"] = SafeQuotient(Product(row["dias_perdidos"], k),
                                           row["total_horas"])

\* the class constant of a row of the given kind
KDeClase(tipo) ==
    IF tipo = Str("mes") THEN K.MENSUAL
    ELSE IF tipo = Str("trimestre") THEN K.TRIMESTRAL
    ELSE K.ANUAL

\* C15 (what the code does): whatever the caller configured, every row
\* records and is computed with the class constants
C15_ClassConstantsUsed ==
    ROk =>
        \A i \in 1..Len(Reporte.rows) :
            LET row == Reporte.rows[i]
                k == KDeClase(row["tipo_fila"])
            IN /\ row["constante_k"] = k
               /\ row["IF"] = SafeQuotient(Product(row["total_lesiones"], k),
                                           row["total_horas"])
               /\ row["IG"] = SafeQuotient(Product(row["dias_perdidos"], k),
                                           row["total_horas"])

\* C15 witness: constants other than the defaults were configured and the
\* report of twelve months carries the defaults
C15_WitnessConfigured ==
    /\ ROk
    /\ ra.constantes = ConstantesK(Whole(20000), Whole(60000), Whole(240000))
    /\ Entrada12(r_call.df)
    /\ FilaAnual(Reporte)["constante_k"] = K_ANUAL
    /\ FilaAnual(Reporte)["IF"].n > 0

\* a step in which the caller changed a table it holds, no procesar call
\* being made
EscrituraDelCaller ==
    /\ calls' = calls
    /\ r_call # None /\ r_call' # None
    /\ r_call'.ret # r_call.ret

\* C16 (as stated): the tables handed out are snapshots: when the caller
\* changes a table it received, no table the engine retains changes and
\* obtener_estadisticas gives what it gave before
C16_OutputsAreSnapshots ==
    [][EscrituraDelCaller =>
         /\ ra'.df_reporte = ra.df_reporte
         /\ ra'.df_charts = ra.df_charts
         /\ obtener_estadisticas(ra') = obtener_estadisticas(ra)]_vars

\* C16 (what the code does): the engine retains the very tables it returned,
\* so after any caller write the retained tables are the caller's tables;
\* the charts table is a copy of the report's rows, so a write into one of
\* the two does not reach the other
C16_RetainedTablesAreTheReturnedOnes ==
    ROk => /\ ra.df_reporte = r_call.ret.df_reporte
           /\ ra.df_charts = r_call.ret.df_charts

\* C16 witness: the caller wrote 999 over the IF column of the report it
\* received, and the engine's statistics now give 999 as the year's IF
C16_WitnessStatisticsChanged ==
    /\ ROk
    /\ Entrada12(r_call.df)
    /\ ra.df_reporte.rows[1]["IF"] = ValorEscrito
    /\ obtener_estadisticas(ra)["if_anual"] = ValorEscrito
    /\ obtener_estadisticas(ra)["total_lesiones_anio"].n < 999

\* the last validar call, when one was made
VHecha == v_call # None

\* the labels of a table, normalised
Etiquetas(df) == {NormalizarColumna(df.columns[c]) : c \in 1..Len(df.columns)}

\* the names under which a table may carry the reactive column col
NombresReactivos(col) ==
    LET e == ALIAS_REACTIVO[CHOOSE i \in 1..Len(ALIAS_REACTIVO) :
                              ALIAS_REACTIVO[i].col_std = col]
    IN {col} \cup {NormalizarColumna(e.aliases[i]) : i \in 1..Len(e.aliases)}

\* the required reactive columns a table carries under no name
ReactivasAusentes(df) ==
    {col \in Range(COLUMNAS_REACTIVO) : NombresReactivos(col) \cap Etiquetas(df) = {}}

\* C17: validate with kind Reactive, given a non-empty table that misses a
\* required reactive column and carries no alias of it, returns ok = False
\* with exactly one error, which names every missing required column, and
\* returns no normalised table
C17_MissingReactiveColumnsOneError ==
    (/\ VHecha
     /\ v_call.tipo = REACTIVO
     /\ ~Vacio(v_call.df)
     /\ ReactivasAusentes(v_call.df) # {})
    => /\ ~IsExc(v_call.ret)
       /\ v_call.ret.es_valido = FALSE
       /\ Len(v_call.ret.errores) = 1
       /\ v_call.ret.errores[1].tipo = "error"
       /\ Range(v_call.ret.errores[1].mensaje.items)
            = ReactivasAusentes(v_call.df)
       /\ v_call.ret.df_limpio = None

\* C17 witness: a table of months and hours only was validated as Reactive;
\* the one error names num_lesiones and dias_perdidos
C17_Witness ==
    /\ VHecha
    /\ v_call.tipo = REACTIVO
    /\ v_call.df # None
    /\ v_call.df.columns = <<"Mes", "Horas">>
    /\ v_call.df.filas > 0
    /\ ~IsExc(v_call.ret)
    /\ Len(v_call.ret.errores) = 1
    /\ v_call.ret.errores[1].mensaje.items = <<"num_lesiones", "dias_perdidos">>

\* the places of the table whose normalised label is `nombre`
LugaresDe(df, nombre) ==
    {c \in 1..Len(df.columns) : NormalizarColumna(df.columns[c]) = nombre}

\* the canonical names of the alias dictionary in use
Canonicas(tipo) == {alias_map(tipo)[i].col_std : i \in 1..Len(alias_map(tipo))}

\* C18 (as stated): an alias is renamed to its canonical name only when no
\* column carries the canonical name; when the canonical column is there it
\* keeps its place and data and its aliases keep their labels; and no two
\* columns are renamed to the same canonical name
C18_AliasResolution ==
    (VHecha /\ ~Vacio(v_call.df)) =>
      LET df == v_call.df
          out == v_call.df_normalizado
          renamed == {c \in 1..Len(df.columns) :
                        out.columns[c] # NormalizarColumna(df.columns[c])}
      IN /\ out.data = df.data
         /\ Len(out.columns) = Len(df.columns)
         /\ \A c \in renamed :
              /\ out.columns[c] \in Canonicas(v_call.tipo)
              /\ LugaresDe(df, out.columns[c]) = {}
         /\ \A c \in 1..Len(df.columns) :
              NormalizarColumna(df.columns[c]) \in Canonicas(v_call.tipo)
                => out.columns[c] = NormalizarColumna(df.columns[c])
         /\ \A c, d \in renamed : out.columns[c] = out.columns[d] => c = d

\* C18 (what the code does): as stated, but every column that carries the
\* first alias found is renamed, so two columns whose labels normalise to
\* one alias both get the canonical name
C18_AliasResolutionByLabel ==
    (VHecha /\ ~Vacio(v_call.df)) =>
      LET df == v_call.df
          out == v_call.df_normalizado
          renamed == {c \in 1..Len(df.columns) :
                        out.columns[c] # NormalizarColumna(df.columns[c])}
      IN /\ out.data = df.data
         /\ Len(out.columns) = Len(df.columns)
         /\ \A c \in renamed :
              /\ out.columns[c] \in Canonicas(v_call.tipo)
              /\ LugaresDe(df, out.columns[c]) = {}
         /\ \A c \in 1..Len(df.columns) :
              NormalizarColumna(df.columns[c]) \in Canonicas(v_call.tipo)
                => out.columns[c] = NormalizarColumna(df.columns[c])
         /\ \A c, d \in renamed :
              out.columns[c] = out.columns[d]
                => NormalizarColumna(df.columns[c])
                     = NormalizarColumna(df.columns[d])

\* C18 witness: the columns Horas and horas were both renamed to
\* horas_trabajadas
C18_WitnessTwoRenamed ==
    /\ VHecha
    /\ v_call.df # None
    /\ v_call.df.columns
         = <<"Mes", "Horas", "horas", "num_lesiones", "dias_perdidos">>
    /\ v_call.df_normalizado.columns
         = <<"mes", "horas_trabajadas", "horas_trabajadas", "num_lesiones",
             "dias_perdidos">>
    /\ v_call.ret = Raise("TypeError")

\* C18 witness of the part that holds: with horas_trabajadas and Horas both
\* there, the alias keeps its label
C18_WitnessCanonicalKept ==
    /\ VHecha
    /\ v_call.df # None
    /\ v_call.df.columns
         = <<"Mes", "horas_trabajadas", "Horas", "num_lesiones",
             "dias_perdidos">>
    /\ v_call.df_normalizado.columns
         = <<"mes", "horas_trabajadas", "horas", "num_lesiones",
             "dias_perdidos">>

\* the count and hour fields of each kind
CamposReactivos == {"horas_trabajadas", "num_lesiones", "dias_perdidos"}
CamposProactivos ==
    {col_real(indicadores[i]) : i \in 1..Len(indicadores)}
    \cup {col_prog(indicadores[i]) : i \in 1..Len(indicadores)}
CamposDelTipo(tipo) ==
    IF tipo = REACTIVO THEN CamposReactivos
    ELSE IF tipo = PROACTIVO THEN CamposProactivos
    ELSE CamposReactivos \cup CamposProactivos

\* a field of the normalised table, one of `campos`, holds a negative number
HayNegativo(df, campos) ==
    \E c \in 1..Len(df.columns) :
        /\ df.columns[c] \in campos
        /\ \E r \in 1..df.filas : PyLtZero(to_numeric(df.data[c][r]))

\* C19 (as stated): whenever a count or hour field of the selected kind,
\* Reactive, Proactive or Both, holds a negative value, validate returns
\* ok = False with at least one error
C19_NegativeValuesRejected ==
    (/\ VHecha
     /\ ~Vacio(v_call.df)
     /\ ~IsExc(v_call.ret)
     /\ HayNegativo(v_call.df_normalizado, CamposDelTipo(v_call.tipo)))
    => /\ v_call.ret.es_valido = FALSE
       /\ Len(v_call.ret.errores) >= 1

\* C19 (what the code does): only the three reactive fields are checked for
\* negative values, under Reactive and under Both
C19_ReactiveNegativesRejected ==
    (/\ VHecha
     /\ ~Vacio(v_call.df)
     /\ ~IsExc(v_call.ret)
     /\ v_call.tipo \in {REACTIVO, AMBOS}
     /\ HayNegativo(v_call.df_normalizado, CamposReactivos))
    => /\ v_call.ret.es_valido = FALSE
       /\ Len(v_call.ret.errores) >= 1

\* C19 witness: a table with iart_real = -3 in its first row was validated as
\* Proactive and found valid, the -3 being in the table returned
C19_WitnessProactiveNegative ==
    /\ VHecha
    /\ v_call.tipo = PROACTIVO
    /\ v_call.df
         = TablaDe(<<"Mes", "iart_real", "iart_programado", "opas_real",
                     "opas_programado">>, 2, Whole(-3))
    /\ v_call.ret.es_valido
    /\ v_call.ret.errores = <<>>
    /\ v_call.ret.df_limpio.data[2][1] = Whole(-3)

\* C19 witness of the part that holds: -3 lost days under Reactive give the
\* error of the column dias_perdidos
C19_WitnessReactiveNegative ==
    /\ VHecha
    /\ v_call.tipo = REACTIVO
    /\ v_call.df
         = TablaDe(<<"Mes", "horas_trabajadas", "num_lesiones",
                     "dias_perdidos">>, 4, Whole(-3))
    /\ ~v_call.ret.es_valido
    /\ Len(v_call.ret.errores) = 1
    /\ v_call.ret.errores[1].columna = "dias_perdidos"

\* a field of the normalised table, one of `campos`, holds a value that is
\* no number
HayNoNumerico(df, campos) ==
    \E c \in 1..Len(df.columns) :
        /\ df.columns[c] \in campos
        /\ \E r \in 1..df.filas : pd_isna(to_numeric(df.data[c][r]))

\* a month of the normalised table has 0 hours
HayCeroHoras(df) ==
    \E c \in 1..Len(df.columns) :
        /\ df.columns[c] = "horas_trabajadas"
        /\ \E r \in 1..df.filas : PyEqZero(to_numeric(df.data[c][r]))

\* the halves of the pair of an indicator that the table carries
Mitades(df, ind) == {col_real(ind), col_prog(ind)} \cap Range(df.columns)

\* the result carries a warning about one of the columns
HayAviso(ret, columnas) ==
    \E i \in 1..Len(ret.warnings) :
        /\ ret.warnings[i].columna \in columnas
        /\ ret.warnings[i].tipo = "warning"

\* nothing the contract calls an error is in the normalised table: it has
\* the month column, the reactive columns where the kind needs them, and no
\* negative value in a field of the kind
SinCausaDeError(tipo, df) ==
    /\ "mes" \in Range(df.columns)
    /\ tipo \in {REACTIVO, AMBOS} => CamposReactivos \subseteq Range(df.columns)
    /\ ~HayNegativo(df, CamposDelTipo(tipo))

\* the call returned, on a table with nothing the contract calls an error
SoloAvisos ==
    /\ VHecha
    /\ ~Vacio(v_call.df)
    /\ ~IsExc(v_call.ret)
    /\ SinCausaDeError(v_call.tipo, v_call.df_normalizado)

\* ok = True with the normalised table returned
Aceptada(ret) == ret.es_valido /\ ret.errores = <<>> /\ ret.df_limpio # None

\* C20 (as stated): warnings do not block: a non-numeric value in a field of
\* the kind, a month of 0 hours, and a proactive family, any of the seven,
\* with one half of its pair present each add a warning, and on their own
\* leave ok = True with the normalised table returned
C20_WarningsNonBlocking ==
    SoloAvisos =>
      LET tipo == v_call.tipo
          df == v_call.df_normalizado
          ret == v_call.ret
      IN /\ HayNoNumerico(df, CamposDelTipo(tipo))
              => HayAviso(ret, CamposDelTipo(tipo)) /\ Aceptada(ret)
         /\ (tipo \in {REACTIVO, AMBOS} /\ HayCeroHoras(df))
              => HayAviso(ret, {"horas_trabajadas"}) /\ Aceptada(ret)
         /\ \A i \in 1..Len(indicadores) :
              (tipo \in {PROACTIVO, AMBOS}
               /\ Cardinality(Mitades(df, indicadores[i])) = 1)
              => /\ HayAviso(ret, {col_real(indicadores[i]),
                                   col_prog(indicadores[i])}
                                  \ Mitades(df, indicadores[i]))
                 /\ Aceptada(ret)

\* C20 (what the code does): a non-numeric value in a reactive field, a
\* month of 0 hours, and a family other than IART with one half of its pair
\* present add a warning and leave the result valid; a non-numeric value in
\* a proactive field becomes 0 without a warning; IART with one half present
\* is an error
C20_WarningsOfTheCode ==
    SoloAvisos =>
      LET tipo == v_call.tipo
          df == v_call.df_normalizado
          ret == v_call.ret
          iart == Cardinality(Mitades(df, "iart")) = 2
      IN /\ (tipo \in {REACTIVO, AMBOS} /\ HayNoNumerico(df, CamposReactivos))
              => HayAviso(ret, CamposReactivos)
         /\ (tipo \in {REACTIVO, AMBOS} /\ HayCeroHoras(df))
              => HayAviso(ret, {"horas_trabajadas"})
         /\ tipo = REACTIVO => Aceptada(ret)
         /\ tipo = PROACTIVO =>
              /\ ~HayAviso(ret, CamposProactivos \cap Range(df.columns))
              /\ Aceptada(ret) <=> iart
              /\ ~iart => /\ ret.warnings = <<>>
                          /\ Len(ret.errores) = 1
                          /\ ret.errores[1].columna = "columnas"
              /\ iart =>
                   /\ ~HayNoNumerico(ret.df_limpio, CamposProactivos)
                   /\ \A i \in 1..Len(indicadores) :
                        Cardinality(Mitades(df, indicadores[i])) = 1
                        => HayAviso(ret, {col_real(indicadores[i]),
                                          col_prog(indicadores[i])}
                                         \ Mitades(df, indicadores[i]))
         /\ tipo = AMBOS => (Aceptada(ret) <=> iart)

\* C20 witness: iart_real without iart_programado, nothing else amiss, was
\* validated as Proactive: no warning, one error, no table
C20_WitnessIartHalf ==
    /\ VHecha
    /\ v_call.tipo = PROACTIVO
    /\ v_call.df = TablaDe(<<"Mes", "iart_real", "opas_real",
                             "opas_programado">>, 0, Zero)
    /\ ~v_call.ret.es_valido
    /\ v_call.ret.warnings = <<>>
    /\ v_call.ret.errores[1].mensaje.items = <<"iart_programado">>
    /\ v_call.ret.df_limpio = None

\* C20 witness of the part that holds: opas_real without opas_programado
\* gives a warning and a valid result
C20_WitnessOpasHalf ==
    /\ VHecha
    /\ v_call.tipo = PROACTIVO
    /\ v_call.df = TablaDe(<<"Mes", "iart_real", "iart_programado",
                             "opas_real">>, 0, Zero)
    /\ Aceptada(v_call.ret)
    /\ Len(v_call.ret.warnings) = 1
    /\ v_call.ret.warnings[1].columna = "opas_programado"

\* C20 witness: a text in iart_real under Proactive became 0 in the table
\* returned, and no warning tells of it
C20_WitnessProactiveText ==
    /\ VHecha
    /\ v_call.tipo = PROACTIVO
    /\ v_call.df = TablaDe(<<"Mes", "iart_real", "iart_programado",
                             "opas_real", "opas_programado">>, 2, Str("abc"))
    /\ Aceptada(v_call.ret)
    /\ v_call.ret.warnings = <<>>
    /\ v_call.ret.df_limpio.data[2][1] = Zero

\* the signature columns of each family that a table carries
FirmasReactivas(df) ==
    Etiquetas(df) \cap {"horas_trabajadas", "horas", "num_lesiones", "lesiones"}
FirmasProactivas(df) ==
    Etiquetas(df) \cap {"iart_real", "iart_programado", "opas_real"}

\* C21: detectKind returns Both exactly when the table has a reactive and a
\* proactive signature column, Proactive when it has proactive signature
\* columns only, and Reactive in every other case, a table with no signature
\* column included
C21_DetectKind ==
    d_call # None =>
      LET r == FirmasReactivas(d_call.df) # {}
          p == FirmasProactivas(d_call.df) # {}
      IN /\ d_call.ret = AMBOS <=> (r /\ p)
         /\ (p /\ ~r) => d_call.ret = PROACTIVO
         /\ ~p => d_call.ret = REACTIVO

\* C21 witness: a table of months and lost days, no signature column, was
\* classified Reactive
C21_WitnessNoSignature ==
    /\ d_call # None
    /\ d_call.df.columns = <<"Mes", "dias_perdidos">>
    /\ d_call.ret = REACTIVO

\* C21 witness: a table with reactive and proactive signature columns was
\* classified Both
C21_WitnessBoth ==
    /\ d_call # None
    /\ d_call.df.columns = <<"Mes", "Lesiones", "iart_programado">>
    /\ d_call.ret = AMBOS

\* the IEF pairs <<executed, planned>> put in place of those of a table
ParesIEF == <<<<Whole(0), Whole(0)>>, <<Whole(9), Whole(10)>>,
              <<Str("abc"), None>>>>

\* the table df with the IEF pair of every record replaced by the k-th of
\* ParesIEF, everything else as it is
ConIEF(df, k) ==
    DataFrame(df.columns,
      [r \in 1..Len(df.rows) |->
         [c \in Range(df.columns) |->
            IF NormalizarColumna(c) = "ef_auditados" THEN ParesIEF[k][1]
            ELSE IF NormalizarColumna(c) = "ef_totales" THEN ParesIEF[k][2]
            ELSE df.rows[r][c]]])

\* the table procesar gives for the input of the last call with its IEF
\* pair replaced
IndicadoresConIEF(k) == TablaIndicadores(pc.meta, build, ConIEF(p_call.df, k))

\* C22: IEF is informational only: two inputs that differ only in the IEF
\* pair give the same IG_TOTAL and the same status on every row
C22_IEFInformationalOnly ==
    POk =>
      \A k \in 1..Len(ParesIEF) :
        LET otro == IndicadoresConIEF(k)
        IN /\ otro.k = "df"
           /\ Len(otro.rows) = Len(Indicadores.rows)
           /\ \A i \in 1..Len(otro.rows) :
                /\ otro.rows[i]["IG_TOTAL"] = Indicadores.rows[i]["IG_TOTAL"]
                /\ otro.rows[i]["Estado"] = Indicadores.rows[i]["Estado"]
                /\ otro.rows[i]["mes"] = Indicadores.rows[i]["mes"]

\* C22 witness: a processed row whose IEF is not the 90 it gets with the pair
\* 9 of 10, and whose IG_TOTAL is positive and the same in both tables
C22_Witness ==
    /\ POk
    /\ \E i \in 1..Len(Indicadores.rows) :
         /\ Indicadores.rows[i]["IEF"] # Whole(90)
         /\ IndicadoresConIEF(2).rows[i]["IEF"] = Whole(90)
         /\ Indicadores.rows[i]["IG_TOTAL"].n > 0
         /\ IndicadoresConIEF(2).rows[i]["IG_TOTAL"]
              = Indicadores.rows[i]["IG_TOTAL"]

----------------------------------------------------------------------------
(* Hours worked of a month record.                                         *)

\* the cell a record of the input supplies for a field, None when the table
\* has no column of that name
Suministrado(df, r, campo) ==
    IF \E c \in Range(df.columns) : NormalizarColumna(c) = campo
    THEN df.rows[r][CHOOSE c \in Range(df.columns) : NormalizarColumna(c) = campo]
    ELSE None

\* the records of the input whose month name, lowercased and trimmed, is m
RegistrosDelMes(df, m) ==
    {r \in 1..Len(df.rows) :
        StrLowerStrip(Suministrado(df, r, "mes")) = m}

\* the hours worked the specification gives for numbers h, w and overtime e
HorasEsperadas(h, w, e) ==
    IF h.n > 0 THEN h
    ELSE RatAdd(RatMul(w, Num(17333, 100)), IF e = None THEN Zero ELSE e)

\* the fields of hours, workers and overtime of record r are numbers, the
\* overtime possibly absent
HorasNumericas(df, r) ==
    /\ IsNum(Suministrado(df, r, "horas_hombre_mes"))
    /\ IsNum(Suministrado(df, r, "num_trabajadores"))
    /\ Suministrado(df, r, "horas_extras") = None
         \/ IsNum(Suministrado(df, r, "horas_extras"))

\* C23: every Month row of the report whose month names one record of the
\* input, with numeric hours, workers and overtime, carries as total_horas
\* the supplied hours when they are greater than zero, and otherwise
\* workers * 173.33 + overtime, the overtime being 0 when the table has no
\* overtime column.
C23_HoursWorked ==
    ROk =>
      \A i \in 1..Len(Reporte.rows) :
        Reporte.rows[i]["tipo_fila"] = Str("mes") =>
          \A r \in RegistrosDelMes(r_call.df, Reporte.rows[i]["mes"]) :
            (Cardinality(RegistrosDelMes(r_call.df, Reporte.rows[i]["mes"])) = 1
             /\ HorasNumericas(r_call.df, r)) =>
               Reporte.rows[i]["total_horas"]
                 = HorasEsperadas(Suministrado(r_call.df, r, "horas_hombre_mes"),
                                  Suministrado(r_call.df, r, "num_trabajadores"),
                                  Suministrado(r_call.df, r, "horas_extras"))

\* a report with a month whose supplied hours are positive and whose overtime
\* is positive too, and a month without hours whose total is computed from
\* the workers and a positive overtime
C23_Witness ==
    /\ ROk
    /\ \E i, j \in 1..Len(Reporte.rows) :
         /\ Reporte.rows[i]["tipo_fila"] = Str("mes")
         /\ Reporte.rows[j]["tipo_fila"] = Str("mes")
         /\ \E r \in RegistrosDelMes(r_call.df, Reporte.rows[i]["mes"]) :
              /\ HorasNumericas(r_call.df, r)
              /\ Suministrado(r_call.df, r, "horas_hombre_mes").n > 0
              /\ Suministrado(r_call.df, r, "horas_extras") # None
              /\ Suministrado(r_call.df, r, "horas_extras").n > 0
              /\ Reporte.rows[i]["total_horas"]
                   = Suministrado(r_call.df, r, "horas_hombre_mes")
         /\ \E r \in RegistrosDelMes(r_call.df, Reporte.rows[j]["mes"]) :
              /\ HorasNumericas(r_call.df, r)
              /\ Suministrado(r_call.df, r, "horas_hombre_mes").n = 0
              /\ Suministrado(r_call.df, r, "num_trabajadores").n > 0
              /\ Suministrado(r_call.df, r, "horas_extras") # None
              /\ Suministrado(r_call.df, r, "horas_extras").n > 0
              /\ Reporte.rows[j]["total_horas"].n > 0

\* a report of a table without overtime column, with a month whose hours are
\* computed from the workers alone
C23_WitnessNoOvertime ==
    /\ ROk
    /\ \E i \in 1..Len(Reporte.rows) :
         /\ Reporte.rows[i]["tipo_fila"] = Str("mes")
         /\ \E r \in RegistrosDelMes(r_call.df, Reporte.rows[i]["mes"]) :
              /\ HorasNumericas(r_call.df, r)
              /\ Suministrado(r_call.df, r, "horas_extras") = None
              /\ Suministrado(r_call.df, r, "horas_hombre_mes").n = 0
              /\ Reporte.rows[i]["total_horas"].n > 0

----------------------------------------------------------------------------
(* The input table after a call.                                           *)

\* C24: after ReactiveAnalyzer.procesar, ProactiveCalculator.procesar or
\* DataValidator.validar returned or raised, the table the caller handed in
\* has the column labels and the cells it had before the call.
C24_InputUnchanged ==
    /\ r_call # None => r_call.entrada = r_call.df
    /\ p_call # None => p_call.entrada = p_call.df
    /\ v_call # None => v_call.entrada = v_call.df

\* a reactive call that returned for a table whose labels the engine had to
\* normalise and whose cells it had to convert
C24_Witness ==
    /\ ROk
    /\ RenameColumns(r_call.df) # r_call.df
    /\ \E r \in 1..Len(r_call.df.rows) :
         Suministrado(r_call.df, r, "dias_perdidos") = Str("abc")

\* a reactive call that raised after the labels were normalised
C24_WitnessReactiveRaised ==
    /\ r_call # None /\ r_call.ret.k = "exc"
    /\ RenameColumns(r_call.df) # r_call.df

\* a proactive call that returned for a table with labels to normalise
C24_WitnessProactive ==
    POk /\ RenameColumns(p_call.df) # p_call.df

\* a validation that renamed columns and converted cells of its own table
C24_WitnessValidator ==
    /\ v_call # None /\ v_call.df_normalizado # None
    /\ v_call.df_normalizado.columns # v_call.df.columns
    /\ v_call.ret.k = "resultado"
    /\ v_call.ret.df_limpio # None /\ v_call.ret.df_limpio.data # v_call.df.data

----------------------------------------------------------------------------
(* Missing columns under the analysis of both families.                    *)

\* the required columns of a family that the normalised table lacks
AusentesTrasNormalizar(requeridas) ==
    Range(requeridas) \ Range(v_call.df_normalizado.columns)

\* the columns the errors of the last validation name
ColumnasNombradas ==
    UNION {Range(v_call.ret.errores[i].mensaje.items) :
             i \in 1..Len(v_call.ret.errores)}

\* a validation under AMBOS of a table that lacks required columns of both
\* families
AmbasFamiliasIncompletas ==
    /\ VHecha
    /\ v_call.tipo = AMBOS
    /\ ~Vacio(v_call.df)
    /\ AusentesTrasNormalizar(COLUMNAS_REACTIVO) # {}
    /\ AusentesTrasNormalizar(columnas_minimas) # {}

\* C25: under AMBOS, when required reactive columns and required proactive
\* columns are both absent, the errors returned name all of them.
C25_BothFamiliesReported ==
    AmbasFamiliasIncompletas =>
      /\ ~IsExc(v_call.ret)
      /\ AusentesTrasNormalizar(COLUMNAS_REACTIVO) \subseteq ColumnasNombradas
      /\ AusentesTrasNormalizar(columnas_minimas) \subseteq ColumnasNombradas

\* what validar does in that case: one error, which names the missing
\* reactive columns and no others
C25_OnlyReactiveReported ==
    AmbasFamiliasIncompletas =>
      /\ ~IsExc(v_call.ret)
      /\ v_call.ret.es_valido = FALSE
      /\ Len(v_call.ret.errores) = 1
      /\ ColumnasNombradas = AusentesTrasNormalizar(COLUMNAS_REACTIVO)

\* a table of Mes, Horas and iart_real validated under AMBOS: num_lesiones,
\* dias_perdidos and iart_programado are absent, the error names the first
\* two
C25_Witness ==
    /\ AmbasFamiliasIncompletas
    /\ v_call.df.columns = <<"Mes", "Horas", "iart_real">>
    /\ AusentesTrasNormalizar(columnas_minimas) = {"iart_programado"}
    /\ ColumnasNombradas = {"num_lesiones", "dias_perdidos"}

----------------------------------------------------------------------------
(* The order of the proactive output.                                      *)

\* the calendar rank of an input month name: the place, from 0, of the name
\* lowercased and trimmed among the twelve months, 99 for any other name
RangoDelMes(x) ==
    IF x.k = "str" /\ \E i \in 1..12 : MESES_ORDEN[i] = StrStrip(StrLower(x.s))
    THEN (CHOOSE i \in 1..12 : MESES_ORDEN[i] = StrStrip(StrLower(x.s))) - 1
    ELSE 99

\* what identifies record r of the input: its rank and three of its counts,
\* which the inputs give as numbers
ClaveDeEntrada(df, r) ==
    <<RangoDelMes(Suministrado(df, r, "mes")),
      Suministrado(df, r, "ent_entrenados"), Suministrado(df, r, "ds_eliminadas"),
      Suministrado(df, r, "osea_cumplidos")>>

\* the same of a row of the output
ClaveDeSalida(row) ==
    <<row["mes_orden"].n, row["ent_entrenados"], row["ds_eliminadas"],
      row["osea_cumplidos"]>>

\* C26: the output of ProactiveCalculator.procesar has one row for every
\* record of the input, each with the calendar rank of its month name
\* lowercased and trimmed (99 when it is no month), and the ranks never
\* decrease along the table, so the rows of rank 99 come last.
C26_RowsKeptInCalendarOrder ==
    POk =>
      /\ Len(Indicadores.rows) = Len(p_call.df.rows)
      /\ \A r \in 1..Len(p_call.df.rows) :
           Cardinality({i \in 1..Len(Indicadores.rows) :
                          ClaveDeSalida(Indicadores.rows[i])
                            = ClaveDeEntrada(p_call.df, r)})
             = Cardinality({q \in 1..Len(p_call.df.rows) :
                              ClaveDeEntrada(p_call.df, q)
                                = ClaveDeEntrada(p_call.df, r)})
      /\ \A i \in 1..Len(Indicadores.rows) :
           /\ Indicadores.rows[i]["mes_orden"].n \in (0..11) \cup {99}
           /\ Indicadores.rows[i]["mes_orden"].n < 99
                => Indicadores.rows[i]["mes"]
                     = Str(MESES_ORDEN[Indicadores.rows[i]["mes_orden"].n + 1])
      /\ \A i, j \in 1..Len(Indicadores.rows) :
           i < j => Indicadores.rows[i]["mes_orden"].n
                      <= Indicadores.rows[j]["mes_orden"].n

\* a table whose third record is named Total was processed: the row of rank
\* 99 is the last one and the months before it are in calendar order
C26_Witness ==
    /\ POk
    /\ Len(p_call.df.rows) = 5
    /\ Suministrado(p_call.df, 3, "mes") = Str("Total")
    /\ Indicadores.rows[5]["mes_orden"] = Whole(99)
    /\ Indicadores.rows[3]["mes"] = Str("marzo")
    /\ Indicadores.rows[4]["mes"] = Str("abril")

\* twelve months out of order, one of them written " MARZO ", were processed
C26_WitnessTrimmed ==
    /\ POk
    /\ Len(p_call.df.rows) = 12
    /\ Suministrado(p_call.df, 3, "mes") = Str(" MARZO ")
    /\ Suministrado(p_call.df, 1, "mes") = Str("diciembre")
    /\ Indicadores.rows[3]["mes"] = Str("marzo")
    /\ Indicadores.rows[12]["mes"] = Str("diciembre")

\* months repeated and two names that are no month were processed
C26_WitnessRepeated ==
    /\ POk
    /\ \E r, q \in 1..Len(p_call.df.rows) :
         /\ r # q
         /\ RangoDelMes(Suministrado(p_call.df, r, "mes")) = 0
         /\ RangoDelMes(Suministrado(p_call.df, q, "mes")) = 0
    /\ Cardinality({i \in 1..Len(Indicadores.rows) :
                      Indicadores.rows[i]["mes_orden"] = Whole(99)}) = 2

----------------------------------------------------------------------------
(* The validator before the engines.                                       *)

\* the call raised the ValueError of _validar_columnas
ErrorDeEsquema(ret) == ret.k = "exc" /\ ret.e = "ValueError"

\* C27: a table that validar accepted under REACTIVO is processed by
\* ReactiveAnalyzer.procesar without the error of missing columns, and a
\* table accepted under PROACTIVO is processed by
\* ProactiveCalculator.procesar without it.
C27_ValidatorGatekeeps ==
    /\ (r_call # None /\ Validada(REACTIVO)
          /\ r_call.df = ComoDataFrame(v_call.ret.df_limpio))
        => ~ErrorDeEsquema(r_call.ret)
    /\ (p_call # None /\ Validada(PROACTIVO)
          /\ p_call.df = ComoDataFrame(v_call.ret.df_limpio))
        => ~ErrorDeEsquema(p_call.ret)

\* what the engines do with the accepted tables of the canonical columns of
\* the validator: procesar raises, naming required columns of the engine
C27_AcceptedTablesRejected ==
    /\ (r_call # None /\ Validada(REACTIVO)
          /\ r_call.df = ComoDataFrame(v_call.ret.df_limpio))
        => /\ ErrorDeEsquema(r_call.ret)
           /\ {"num_trabajadores", "horas_hombre_mes", "acc_baja"}
                 \subseteq Range(r_call.ret.faltantes)
    /\ (p_call # None /\ Validada(PROACTIVO)
          /\ p_call.df = ComoDataFrame(v_call.ret.df_limpio))
        => /\ ErrorDeEsquema(p_call.ret)
           /\ {"nart_prog", "nart_ejec"} \subseteq Range(p_call.ret.faltantes)

\* a table of mes, horas_trabajadas, num_lesiones and dias_perdidos was
\* accepted under REACTIVO without errors or warnings, and procesar raised
C27_Witness ==
    /\ r_call # None /\ Validada(REACTIVO)
    /\ r_call.df = ComoDataFrame(v_call.ret.df_limpio)
    /\ v_call.ret.warnings = <<>>
    /\ v_call.ret.df_limpio.columns
         = <<"mes", "horas_trabajadas", "num_lesiones", "dias_perdidos">>
    /\ ErrorDeEsquema(r_call.ret)

\* a table accepted under PROACTIVO, and procesar raised
C27_WitnessProactive ==
    /\ p_call # None /\ Validada(PROACTIVO)
    /\ p_call.df = ComoDataFrame(v_call.ret.df_limpio)
    /\ ErrorDeEsquema(p_call.ret)

----------------------------------------------------------------------------
(* The Year row against the rows of the report.                            *)

TotalesDelReporte == {"total_lesiones", "dias_perdidos", "total_horas"}

\* the sum of a column over the rows of one kind of a report
SumaDeFilas(df, tipo, col) == SumCells(Column(FilasDeTipo(df, tipo), col))

\* the Year row's totals are the sums over the Quarter rows and over the
\* Month rows of the report
AnualEsSumaDeFilas ==
    \A col \in TotalesDelReporte :
      /\ FilaAnual(Reporte)[col] = SumaDeFilas(Reporte, "trimestre", col)
      /\ FilaAnual(Reporte)[col] = SumaDeFilas(Reporte, "mes", col)

\* every record of the input names a calendar month
SoloMesesDelCalendario(df) ==
    \A r \in 1..Len(df.rows) : RangoDelMes(Suministrado(df, r, "mes")) < 99

\* C28: in every report, the Year row's injury, lost-days and hours totals
\* equal the sums of those totals over the Quarter rows of the report, and
\* over its Month rows, whatever month names the accepted input carries.
C28_YearTotalsAreSumsOfRows == ROk => AnualEsSumaDeFilas

\* what holds of the code: the equalities for the inputs whose records all
\* name calendar months
C28_YearTotalsOfCalendarInputs ==
    (ROk /\ SoloMesesDelCalendario(r_call.df)) => AnualEsSumaDeFilas

\* a report of enero, febrero, Total, marzo, abril: four Month rows, one
\* Quarter row for the first quarter and one for the second, and a Year row
\* whose hours exceed the sum of the hours of the Month rows
C28_Witness ==
    /\ ROk
    /\ ~SoloMesesDelCalendario(r_call.df)
    /\ Len(r_call.df.rows) = 5
    /\ Len(FilasDeTipo(Reporte, "mes")) = 4
    /\ SumaDeFilas(Reporte, "trimestre", "total_horas")
         = SumaDeFilas(Reporte, "mes", "total_horas")
    /\ RatLt(SumaDeFilas(Reporte, "mes", "total_horas"),
             FilaAnual(Reporte)["total_horas"])

\* a report of an input of calendar months only, fewer than twelve
C28_WitnessPartial ==
    /\ ROk
    /\ SoloMesesDelCalendario(r_call.df)
    /\ Len(r_call.df.rows) = 3
    /\ Len(FilasDeTipo(Reporte, "trimestre")) = 2
    /\ FilaAnual(Reporte)["total_horas"].n > 0

----------------------------------------------------------------------------
(* The tables the engines retain.                                          *)

\* the statistics of a reactive analyzer are those of the tables t: empty
\* without a report, else the totals of the Month rows of the report
EstadisticasReactivasDe(t) ==
    IF t = None THEN DOMAIN obtener_estadisticas(ra) = {}
    ELSE /\ obtener_estadisticas(ra)["total_lesiones_anio"]
              = SumaDeFilas(t, "mes", "total_lesiones")
         /\ obtener_estadisticas(ra)["total_dias_perdidos"]
              = SumaDeFilas(t, "mes", "dias_perdidos")
         /\ obtener_estadisticas(ra)["if_anual"] = FilaAnual(t)["IF"]

\* the statistics of a proactive calculator are those of the table t
EstadisticasProactivasDe(t) ==
    IF t = None THEN DOMAIN P_obtener_estadisticas(pc) = {}
    ELSE /\ P_obtener_estadisticas(pc)["meta"] = pc.meta
         /\ P_obtener_estadisticas(pc)["meses_cumplen"]
              = Whole(Cardinality({i \in 1..Len(t.rows) :
                                     t.rows[i]["Estado"] = Str("CUMPLE")}))
         /\ P_obtener_estadisticas(pc)["meses_cumplen"].n
              + P_obtener_estadisticas(pc)["meses_no_cumplen"].n = Len(t.rows)

\* a procesar call that raised left the retained tables as they were, and one
\* that returned left its output retained
TrasLlamada ==
    calls' # calls =>
      /\ (r_call' # None /\ r_call'.ret.k = "exc") =>
            /\ ra'.df_reporte = ra.df_reporte
            /\ ra'.df_charts = ra.df_charts
      /\ (r_call' # None /\ r_call'.ret.k = "ok") =>
            /\ ra'.df_reporte = r_call'.ret.df_reporte
            /\ ra'.df_charts = r_call'.ret.df_charts
      /\ (p_call' # None /\ p_call'.ret.k = "exc") =>
            pc'.df_resultado = pc.df_resultado
      /\ (p_call' # None /\ p_call'.ret.k = "ok") =>
            pc'.df_resultado = p_call'.ret.df

\* before any successful call of an engine nothing is retained, and the
\* statistics are those of what is retained
Retenido ==
    /\ (r_call = None \/ (r_call.ret.k = "exc" /\ ~r_call.after_report))
         => ra.df_reporte = None
    /\ (p_call = None \/ (p_call.ret.k = "exc" /\ ~p_call.after_result))
         => pc.df_resultado = None
    /\ EstadisticasReactivasDe(ra.df_reporte)
    /\ EstadisticasProactivasDe(pc.df_resultado)

\* C29: a procesar call that raises leaves the retained tables of the engine
\* unchanged; the statistics are empty before any successful call and after
\* any sequence of calls they are those of the output of the most recent
\* successful call.
C29_FailedCallKeepsRetained == []Retenido /\ [][TrasLlamada]_vars

\* a reactive call raised after one that returned: the report of the earlier
\* call is retained and the statistics are its totals
C29_Witness ==
    /\ r_call # None /\ r_call.ret.k = "exc" /\ r_call.after_report
    /\ ra.df_reporte # None
    /\ obtener_estadisticas(ra)["total_lesiones_anio"].n > 0

\* a proactive call raised after one that returned
C29_WitnessProactive ==
    /\ p_call # None /\ p_call.ret.k = "exc" /\ p_call.after_result
    /\ pc.df_resultado # None
    /\ P_obtener_estadisticas(pc)["meses_cumplen"].n > 0

\* a call raised before any returned: nothing retained, no statistics
C29_WitnessEmpty ==
    /\ r_call # None /\ r_call.ret.k = "exc" /\ ~r_call.after_report
    /\ DOMAIN obtener_estadisticas(ra) = {}

----------------------------------------------------------------------------
(* The three computations of the proactive indicators.                     *)

\* the families that enter IG_TOTAL
Familias == <<"IART", "OPAS", "IDPS", "IDS", "IENTS", "IOSEA", "ICAI">>

\* SSOCalculator.calcular_iart, calcular_ids, calcular_ients, calcular_iosea
\* and calcular_icai: _safe_divide(executed, planned) * 100
SSO_simple(ejecutadas, programadas) ==
    PyMul(SSOCalculator_safe_divide(ejecutadas, programadas), Whole(100))

\* SSOCalculator.calcular_opas and calcular_idps:
\* _safe_divide(realizadas * conformes, programadas * previstas) * 100
SSO_compuesto(realizadas, conformes, programadas, previstas) ==
    PyMul(SSOCalculator_safe_divide(PyMul(realizadas, conformes),
                                    PyMul(programadas, previstas)),
          Whole(100))

\* SSOCalculator.procesar_dataframe on one row: the proactive columns it adds
procesar_dataframe(row) ==
    LET v == [IART |-> SSO_simple(RowGet(row, "nart_ejec"), RowGet(row, "nart_prog")),
              OPAS |-> SSO_compuesto(RowGet(row, "opas_real"),
                                     RowGet(row, "opas_personas_conf"),
                                     RowGet(row, "opas_prog"),
                                     RowGet(row, "opas_personas_prev")),
              IDPS |-> SSO_compuesto(RowGet(row, "dps_real"),
                                     RowGet(row, "dps_asistentes"),
                                     RowGet(row, "dps_plan"),
                                     RowGet(row, "dps_previstos")),
              IDS |-> SSO_simple(RowGet(row, "ds_eliminadas"),
                                 RowGet(row, "ds_detectadas")),
              IENTS |-> SSO_simple(RowGet(row, "ent_entrenados"),
                                   RowGet(row, "ent_programados")),
              IOSEA |-> SSO_simple(RowGet(row, "osea_cumplidos"),
                                   RowGet(row, "osea_aplicables")),
              ICAI |-> SSO_simple(RowGet(row, "cai_implement"),
                                  RowGet(row, "cai_propuestas"))]
    IN [f \in Range(Familias) \cup {"IG_TOTAL"} |->
          IF f = "IG_TOTAL"
          THEN calcular_ig_total(v.IART, v.OPAS, v.IDPS, v.IDS, v.IENTS,
                                 v.IOSEA, v.ICAI)
          ELSE v[f]]

\* a formula of INDICADORES_PROACTIVOS on an executed and a planned amount,
\* as calcular_indicadores_proactivos takes it: (e / p) * 100 if p > 0 else
\* 0, then min(100, max(0, valor)), and 0 when that raises
FormulaDelTablero(e, p) ==
    IF ~IsNum(e) \/ ~IsNum(p) THEN Zero
    ELSE IF ~PyGtZero(p) THEN Zero
    ELSE LET valor == RatMul(RatDiv(e, p), Whole(100))
         IN IF RatLt(valor, Zero) THEN Zero
            ELSE IF RatLt(Whole(100), valor) THEN Whole(100) ELSE valor

\* pesos of calcular_indicadores_proactivos
PesosDelTablero == [IART |-> 5, OPAS |-> 3, IDPS |-> 2, IDS |-> 3, IENTS |-> 4,
                    IOSEA |-> 4, ICAI |-> 4]

\* calcular_indicadores_proactivos on the counts of one month: the columns
\* of the families, and ig_total = sum of row[ind] * peso over suma_pesos
calcular_indicadores_proactivos(row) ==
    LET v == [IART |-> FormulaDelTablero(row["nart_ejec"], row["nart_prog"]),
              OPAS |-> FormulaDelTablero(
                         PyMul(row["opas_real"], row["opas_personas_conf"]),
                         PyMul(row["opas_prog"], row["opas_personas_prev"])),
              IDPS |-> FormulaDelTablero(
                         PyMul(row["dps_real"], row["dps_asistentes"]),
                         PyMul(row["dps_plan"], row["dps_previstos"])),
              IDS |-> FormulaDelTablero(row["ds_eliminadas"], row["ds_detectadas"]),
              IENTS |-> FormulaDelTablero(row["ent_entrenados"],
                                          row["ent_programados"]),
              IOSEA |-> FormulaDelTablero(row["osea_cumplidos"],
                                          row["osea_aplicables"]),
              ICAI |-> FormulaDelTablero(row["cai_implement"],
                                         row["cai_propuestas"])]
        suma_pesos == PesosDelTablero.IART + PesosDelTablero.OPAS
                      + PesosDelTablero.IDPS + PesosDelTablero.IDS
                      + PesosDelTablero.IENTS + PesosDelTablero.IOSEA
                      + PesosDelTablero.ICAI
        total == SumCells([i \in 1..Len(Familias) |->
                            PyMul(v[Familias[i]],
                                  Whole(PesosDelTablero[Familias[i]]))])
    IN [f \in Range(Familias) \cup {"IG_TOTAL"} |->
          IF f = "IG_TOTAL" THEN PyTrueDiv(total, Whole(suma_pesos))
          ELSE v[f]]

\* two computations give a row the same values of the families and the same
\* IG_TOTAL
MismosValores(a, b) ==
    \A f \in Range(Familias) \cup {"IG_TOTAL"} : a[f] = b[f]

\* C30: for the counts of every month, SSOCalculator.procesar_dataframe,
\* ProactiveCalculator.procesar and calcular_indicadores_proactivos give the
\* same value of every family and the same IG_TOTAL.
C30_CompositesAgree ==
    POk =>
      \A i \in 1..Len(Indicadores.rows) :
        /\ MismosValores(procesar_dataframe(Indicadores.rows[i]),
                         Indicadores.rows[i])
        /\ MismosValores(calcular_indicadores_proactivos(Indicadores.rows[i]),
                         Indicadores.rows[i])

\* the calculator gives every family of the row the value of the engine, as
\* it does where no family has more executed than planned
SinExceso(row) == \A f \in Range(Familias) : procesar_dataframe(row)[f] = row[f]

\* what holds of the code: the calculator agrees with the engine on the rows
\* where no family exceeds 100, the families of the dashboard agree with the
\* engine's everywhere, and the dashboard's ig_total is the engine's IG_TOTAL
\* plus 3 * (IENTS - IG_TOTAL) / 25
C30_WhereTheyAgree ==
    POk =>
      \A i \in 1..Len(Indicadores.rows) :
        LET row == Indicadores.rows[i]
            tablero == calcular_indicadores_proactivos(row)
        IN /\ SinExceso(row) => MismosValores(procesar_dataframe(row), row)
           /\ \A f \in Range(Familias) : tablero[f] = row[f]
           /\ RatMul(tablero["IG_TOTAL"], Whole(25))
                = RatAdd(RatMul(row["IG_TOTAL"], Whole(22)),
                         RatMul(row["IENTS"], Whole(3)))

\* a month with 12 analyses executed of 10 planned: the engine and the
\* dashboard give IART 100, the calculator 120, and the three IG_TOTAL differ
\* from one another
C30_Witness ==
    /\ POk
    /\ \E i \in 1..Len(Indicadores.rows) :
         LET row == Indicadores.rows[i]
         IN /\ row["nart_ejec"] = Whole(12) /\ row["nart_prog"] = Whole(10)
            /\ row["IART"] = Whole(100)
            /\ calcular_indicadores_proactivos(row)["IART"] = Whole(100)
            /\ procesar_dataframe(row)["IART"] = Whole(120)
            /\ procesar_dataframe(row)["IG_TOTAL"] # row["IG_TOTAL"]
            /\ calcular_indicadores_proactivos(row)["IG_TOTAL"] # row["IG_TOTAL"]

\* a month where no family exceeds its plan: the calculator and the engine
\* agree, and the dashboard's ig_total differs through the weight of IENTS
C30_WitnessWeights ==
    /\ POk
    /\ \E i \in 1..Len(Indicadores.rows) :
         LET row == Indicadores.rows[i]
         IN /\ SinExceso(row)
            /\ row["IG_TOTAL"].n > 0
            /\ MismosValores(procesar_dataframe(row), row)
            /\ calcular_indicadores_proactivos(row)["IG_TOTAL"] # row["IG_TOTAL"]

====
